---- MODULE Spec2Model ----
(***************************************************************************)
(* A model of extractly (barryking/extractly): the page handles of a       *)
(* loaded document (src/page.ts, the Extractly class), the bootstrap of    *)
(* the parser (PdfParser.parse, the xref readers and the recovery scan)    *)
(* and the resolution of indirect objects (PdfParser.resolve/getObject).   *)
(*                                                                         *)
(* The specifications of the module:                                       *)
(*   SpecPage    - reads and disposal of the page handles of one document  *)
(*   SpecParse   - PdfParser.parse() on one file, step by step             *)
(*   SpecResolve - PdfParser.resolve() over one xref map and object graph  *)
(*   SpecContent - extractTextItems on the content streams of one page     *)
(***************************************************************************)
EXTENDS Integers, Sequences, FiniteSets, TLC

\* ------------------------------------------------------------------------
\* Option values: a JavaScript `T | null` field is None or Some(v).
\* ------------------------------------------------------------------------
None == << >>
Some(v) == << v >>

\* ========================================================================
\* State.  Each specification moves one group of variables and leaves the
\* other groups at their idle values.
\* ========================================================================
VARIABLES
    pageSrc,      \* page number -> what extractTextItems does on that page
    pages,        \* page number -> the fields of the PDFPage
    docText,      \* Extractly._text
    docDisposed,  \* Extractly.dispose() has run
    extracted     \* pages on which extractTextItems has been called

pageVars == << pageSrc, pages, docText, docDisposed, extracted >>

VARIABLES
    file,          \* the bytes: sections (oldest first), startxref, encryption
    pc,            \* where parse() / fromBuffer() stands
    nextOff,       \* the argument of the pending parseXRefAt call
    xref,          \* PdfParser.xref: insertion-ordered map objNum -> entry
    trailer,       \* PdfParser.trailer (None while undefined)
    visited,       \* sections merged by the normal path, in order
    normalFailed,  \* the catch block of parse() has run
    encryptionInfo,\* PdfParser.encryptionInfo (None while null)
    parseResult,   \* how parse() ended
    loadResult,    \* how Extractly.fromBuffer ended
    cryptoSet,     \* setCryptoImpl has been called (_md5 and _aesCbcDecrypt)
    md5Calls,      \* invocations of the md5 primitive
    aesCalls       \* invocations of the AES-CBC primitive

parseVars == << file, pc, nextOff, xref, trailer, visited, normalFailed,
                encryptionInfo, parseResult, loadResult, cryptoSet, md5Calls, aesCalls >>

VARIABLES
    objects,      \* object number -> its xref entry and what is stored there
    stack,        \* the getObject activations in progress, innermost last
    resolveDepth, \* PdfParser.resolveDepth
    objectCache,  \* PdfParser.objectCache: object number -> value, None if unset
    ret,          \* the value the innermost finished call handed back
    outcome       \* of the outermost resolve(): idle, running, returned, RangeError

resolveVars == << objects, stack, resolveDepth, objectCache, ret, outcome >>

VARIABLES
    contentStreams, \* the decoded streams of the page's /Contents, in order
    xobjects,       \* the /XObject entries of the resources: name -> form
    frames,         \* the interpretContentStream activations, innermost last
    pageItems,      \* the items array extractTextItems hands to every activation
    streamIdx,      \* streams of /Contents the loop of extractTextItems has started
    cpc,            \* where extractTextItems stands
    origin,         \* for every item, the number of the BT of its text object
    btSerial,       \* BT operators executed so far on the page
    capHits         \* nested calls the depth check has turned away

contentVars == << contentStreams, xobjects, frames, pageItems, streamIdx, cpc, origin,
                  btSerial, capHits >>

VARIABLES
    loadFile,   \* the objects of the file both loads are given
    loadCache,  \* load -> PdfParser.objectCache of that load
    loadText,   \* load -> page -> PDFPage._text (None while unset)
    reading,    \* the load and page whose extraction is running, or None
    loadStack,  \* the object numbers of its getObject activations
    loadDepth,  \* PdfParser.resolveDepth of the load being read
    loadRet,    \* the value the innermost finished getObject handed back
    readOrder   \* load -> the pages read so far, in the order of their reads

loadVars == << loadFile, loadCache, loadText, reading, loadStack, loadDepth, loadRet,
               readOrder >>

VARIABLES
    sortIn,       \* the items handed to sortTextItems
    sortedLines,  \* the lines of tagged entries after phase 3
    sortOut       \* the array sortTextItems returned (None before the call)

sortVars == << sortIn, sortedLines, sortOut >>

VARIABLES
    tree,        \* object number -> what the reference resolves to
    walk,        \* the collectPages activations, innermost last
    pageDicts,   \* the array collectPages pushes the pages to
    tpc,         \* where getPages stands
    walkResult   \* how getPages ended: with the array, or with a RangeError

treeVars == << tree, walk, pageDicts, tpc, walkResult >>

\* The groups added to the first three.
extVars == << contentVars, loadVars, sortVars, treeVars >>

VARIABLES
    encFile,       \* the encrypted file: its objects, /Encrypt and /ID
    encCache,      \* PdfParser.objectCache of its parser
    decryptCalls,  \* object number -> calls of decryptParsedObject for it
    parsedOut,     \* the objects getCompressedObject has parsed out, in order
    keyDerived,    \* PdfParser.encryptionInfo is set
    epc            \* where the load of the encrypted file stands

encVars == << encFile, encCache, decryptCalls, parsedOut, keyDerived, epc >>

VARIABLES
    stmBytes,   \* the bytes that follow the stream keyword
    stmLength,  \* what resolveLength returns for the dictionary
    stmData,    \* the data of the stream parseObjectAt returned, if any
    stmDone     \* parseObjectAt has returned

stmVars == << stmBytes, stmLength, stmData, stmDone >>

VARIABLES
    includeInvisibleText  \* PDFPage._includeInvisibleText, the option of the load

textVars == << includeInvisibleText >>

VARIABLES
    xsW,       \* the /W array of the cross-reference stream
    xsData,    \* the decoded bytes of one record
    xsFields,  \* field1, field2, field3 once read
    xsEntry,   \* the entry stored in the table, if any
    xspc       \* "idle", "record", "switch", "done"

xsVars == << xsW, xsData, xsFields, xsEntry, xspc >>

VARIABLES
    lexData,    \* PdfLexer.data
    lexPos,     \* PdfLexer.pos
    lexStart,   \* the cursor when the caller called nextToken
    lexDepth,   \* activations of nextToken on the call stack
    lexTok,     \* the type of the token last returned, "none" before
    lexTokens,  \* tokens other than EOF returned so far
    lexEofs,    \* EOF tokens returned so far
    lexpc       \* "idle", "ready", "inside", "thrown"

lexVars == << lexData, lexPos, lexStart, lexDepth, lexTok, lexTokens, lexEofs, lexpc >>

VARIABLES
    mdDoc,     \* doc.pages, what each page holds
    mdIdx,     \* pages the loop of docToMarkdown has done
    mdParts,   \* parts
    mdResult,  \* the string docToMarkdown returned, once it has
    mdpc       \* "idle", "loop", "done", "thrown"

mdVars == << mdDoc, mdIdx, mdParts, mdResult, mdpc >>

VARIABLES
    resObjs,     \* the dictionaries of the file, by object number
    resPage,     \* the page dictionary the walk starts from
    resDict,     \* pageDict of the current activation of resolveResources
    resVisited,  \* _visited
    resDepth,    \* activations of resolveResources on the call stack
    resResult,   \* what the outermost call returned, once it has
    respc        \* "idle", "walk", "done", "thrown"

resVars == << resObjs, resPage, resDict, resVisited, resDepth, resResult, respc >>

\* The groups of the later parts.
lateVars == << encVars, stmVars, textVars, xsVars, lexVars, mdVars, resVars >>

earlyVars == << pageVars, parseVars, resolveVars, extVars >>

\* What an action of one of the later parts leaves alone.
exceptEncVars == << earlyVars, stmVars, textVars, xsVars, lexVars, mdVars, resVars >>
exceptStmVars == << earlyVars, encVars, textVars, xsVars, lexVars, mdVars, resVars >>
exceptTextVars == << earlyVars, encVars, stmVars, xsVars, lexVars, mdVars, resVars >>
exceptXsVars == << earlyVars, encVars, stmVars, textVars, lexVars, mdVars, resVars >>
exceptLexVars == << earlyVars, encVars, stmVars, textVars, xsVars, mdVars, resVars >>
exceptMdVars == << earlyVars, encVars, stmVars, textVars, xsVars, lexVars, resVars >>
exceptResVars == << earlyVars, encVars, stmVars, textVars, xsVars, lexVars, mdVars >>

vars == << earlyVars, lateVars >>

\* ========================================================================
\* PART 1.  Page handles and the document (src/page.ts, Extractly)
\* ========================================================================

\* Bound of the page model: the number of pages of the document.
MaxPages == 2

RECURSIVE SeqsUpTo(_, _)
SeqsUpTo(S, n) ==
    IF n = 0 THEN {<< >>}
    ELSE LET shorter == SeqsUpTo(S, n - 1)
         IN  shorter \cup {Append(s, x) : s \in {t \in shorter : Len(t) = n - 1}, x \in S}

\* What content extraction of one page does: it throws, or it yields items
\* (each item stands by its text: a glyph run "a" or "b", or a blank run).
ItemLists == { << >>, << " " >>, << "a" >>, << "b" >>, << " ", "a", " ", " ", "b" >> }

PageSources == [throws : {TRUE}, items : {<< >>}]
               \cup [throws : {FALSE}, items : ItemLists]

\* cleanText: runs of blanks collapse to one blank, then trim.
RECURSIVE CollapseBlanks(_)
CollapseBlanks(s) ==
    IF Len(s) <= 1 THEN s
    ELSE IF s[1] = " " /\ s[2] = " " THEN CollapseBlanks(Tail(s))
    ELSE << s[1] >> \o CollapseBlanks(Tail(s))

RECURSIVE TrimLeft(_)
TrimLeft(s) == IF s # << >> /\ s[1] = " " THEN TrimLeft(Tail(s)) ELSE s

RECURSIVE TrimRight(_)
TrimRight(s) ==
    IF s # << >> /\ s[Len(s)] = " " THEN TrimRight(SubSeq(s, 1, Len(s) - 1)) ELSE s

cleanText(s) == TrimRight(TrimLeft(CollapseBlanks(s)))

\* assembleText: no items give the empty string; otherwise the runs in
\* order, cleaned.  (Runs of this model lie on one line, left to right.)
assembleText(items) == IF Len(items) = 0 THEN << >> ELSE cleanText(items)

\* new PDFPage(pageDict, parser, n, options)
NewPage == [pageDict |-> TRUE, parser |-> TRUE,
            textItems |-> None, text |-> None, error |-> None]

\* get textItems(): the page after the call, the value returned, whether it
\* threw, and whether extractTextItems ran.
textItems_NoCatch(pg, src) ==
    IF pg.textItems # None
    THEN [pg |-> pg, val |-> pg.textItems[1], threw |-> FALSE, ran |-> FALSE]
    ELSE IF ~pg.pageDict \/ ~pg.parser
    THEN [pg |-> pg, val |-> << >>, threw |-> FALSE, ran |-> FALSE]
    ELSE IF src.throws
    THEN [pg |-> pg, val |-> << >>, threw |-> TRUE, ran |-> TRUE]
    ELSE [pg |-> [pg EXCEPT !.textItems = Some(src.items)],
          val |-> src.items, threw |-> FALSE, ran |-> TRUE]

textItems(pg, src) ==
    IF pg.textItems # None
    THEN [pg |-> pg, val |-> pg.textItems[1], threw |-> FALSE, ran |-> FALSE]
    ELSE IF ~pg.pageDict \/ ~pg.parser
    THEN [pg |-> pg, val |-> << >>, threw |-> FALSE, ran |-> FALSE]
    ELSE IF src.throws
    THEN [pg |-> [pg EXCEPT !.error = Some("err"), !.textItems = Some(<< >>)],
          val |-> << >>, threw |-> FALSE, ran |-> TRUE]
    ELSE [pg |-> [pg EXCEPT !.textItems = Some(src.items)],
          val |-> src.items, threw |-> FALSE, ran |-> TRUE]

\* get error(): triggers the extraction when nothing is cached.
error(pg, src) ==
    LET r == IF pg.textItems = None THEN textItems(pg, src)
             ELSE [pg |-> pg, val |-> << >>, threw |-> FALSE, ran |-> FALSE]
    IN  [pg |-> r.pg, val |-> r.pg.error, threw |-> r.threw, ran |-> r.ran]

\* get text()
text(pg, src) ==
    IF pg.text # None
    THEN [pg |-> pg, val |-> pg.text[1], threw |-> FALSE, ran |-> FALSE]
    ELSE LET r == textItems(pg, src)
         IN  IF r.threw
             THEN [pg |-> r.pg, val |-> << >>, threw |-> TRUE, ran |-> r.ran]
             ELSE [pg |-> [r.pg EXCEPT !.text = Some(assembleText(r.val))],
                   val |-> assembleText(r.val), threw |-> FALSE, ran |-> r.ran]

\* PDFPage.dispose()
dispose_KeepsText(pg) ==
    [pg EXCEPT !.textItems = None, !.pageDict = FALSE, !.parser = FALSE]

dispose(pg) ==
    [pg EXCEPT !.textItems = None, !.text = None,
               !.pageDict = FALSE, !.parser = FALSE]

\* The page separator of the load options (default "\n\n"), one token here.
pageSeparator == << "\n\n" >>

\* Array.prototype.join over the texts kept by the filter.
RECURSIVE Join(_, _)
Join(ts, sep) ==
    IF Len(ts) = 0 THEN << >>
    ELSE IF Len(ts) = 1 THEN ts[1]
    ELSE ts[1] \o sep \o Join(Tail(ts), sep)

FilterNonEmpty_KeepsAll(ts) == ts

RECURSIVE FilterNonEmpty(_)
FilterNonEmpty(ts) ==
    IF Len(ts) = 0 THEN << >>
    ELSE IF Len(ts[1]) > 0 THEN << ts[1] >> \o FilterNonEmpty(Tail(ts))
    ELSE FilterNonEmpty(Tail(ts))

NumPages == Len(pages)
PageNums == 1 .. NumPages

\* Extractly.text: pages.map(page => page.text), in page order; a throw of a
\* page's getter leaves the pages before it read and the document text unset.
RECURSIVE MapText(_, _, _)
MapText(pgs, srcs, i) ==
    IF i > Len(pgs) THEN [pgs |-> pgs, vals |-> << >>, threw |-> FALSE, ran |-> {}]
    ELSE LET r == text(pgs[i], srcs[i])
             pgs1 == [pgs EXCEPT ![i] = r.pg]
             ranI == IF r.ran THEN {i} ELSE {}
         IN  IF r.threw
             THEN [pgs |-> pgs1, vals |-> << >>, threw |-> TRUE, ran |-> ranI]
             ELSE LET rest == MapText(pgs1, srcs, i + 1)
                  IN  [pgs |-> rest.pgs, vals |-> << r.val >> \o rest.vals,
                       threw |-> rest.threw, ran |-> ranI \cup rest.ran]

PageInit ==
    /\ \E n \in 1 .. MaxPages : pageSrc \in [1 .. n -> PageSources]
    /\ pages = [i \in DOMAIN pageSrc |-> NewPage]
    /\ docText = None
    /\ docDisposed = FALSE
    /\ extracted = {}

PageIdle ==
    /\ pageSrc = << >>
    /\ pages = << >>
    /\ docText = None
    /\ docDisposed = FALSE
    /\ extracted = {}

\* page.textItems
ReadTextItems(p) ==
    LET r == textItems(pages[p], pageSrc[p])
    IN  /\ pages' = [pages EXCEPT ![p] = r.pg]
        /\ extracted' = IF r.ran THEN extracted \cup {p} ELSE extracted
        /\ UNCHANGED << pageSrc, docText, docDisposed, parseVars, resolveVars, extVars, lateVars >>

\* page.text
ReadText_ExtractsAll(p) ==
    LET r == MapText(pages, pageSrc, 1)
    IN  /\ pages' = r.pgs
        /\ extracted' = extracted \cup r.ran
        /\ UNCHANGED << pageSrc, docText, docDisposed, parseVars, resolveVars, extVars, lateVars >>

ReadText(p) ==
    LET r == text(pages[p], pageSrc[p])
    IN  /\ pages' = [pages EXCEPT ![p] = r.pg]
        /\ extracted' = IF r.ran THEN extracted \cup {p} ELSE extracted
        /\ UNCHANGED << pageSrc, docText, docDisposed, parseVars, resolveVars, extVars, lateVars >>

\* page.error
ReadError(p) ==
    LET r == error(pages[p], pageSrc[p])
    IN  /\ pages' = [pages EXCEPT ![p] = r.pg]
        /\ extracted' = IF r.ran THEN extracted \cup {p} ELSE extracted
        /\ UNCHANGED << pageSrc, docText, docDisposed, parseVars, resolveVars, extVars, lateVars >>

\* get text() of the document: the pages and the cached text after the
\* call, the value returned, whether it threw.
docTextGet(pgs, srcs, cached) ==
    IF cached # None
    THEN [pgs |-> pgs, cache |-> cached, val |-> cached[1], threw |-> FALSE, ran |-> {}]
    ELSE LET m == MapText(pgs, srcs, 1)
             joined == Join(FilterNonEmpty(m.vals), pageSeparator)
         IN  IF m.threw
             THEN [pgs |-> m.pgs, cache |-> None, val |-> << >>, threw |-> TRUE, ran |-> m.ran]
             ELSE [pgs |-> m.pgs, cache |-> Some(joined), val |-> joined,
                   threw |-> FALSE, ran |-> m.ran]

\* doc.text
ReadDocText ==
    LET r == docTextGet(pages, pageSrc, docText)
    IN  /\ pages' = r.pgs
        /\ extracted' = extracted \cup r.ran
        /\ docText' = r.cache
        /\ UNCHANGED << pageSrc, docDisposed, parseVars, resolveVars, extVars, lateVars >>

\* page.dispose()
DisposePage(p) ==
    /\ pages' = [pages EXCEPT ![p] = dispose(pages[p])]
    /\ UNCHANGED << pageSrc, docText, docDisposed, extracted, parseVars, resolveVars,
                    extVars, lateVars >>

\* doc.dispose()
DisposeDoc ==
    /\ pages' = [i \in DOMAIN pages |-> dispose(pages[i])]
    /\ docText' = None
    /\ docDisposed' = TRUE
    /\ UNCHANGED << pageSrc, extracted, parseVars, resolveVars, extVars, lateVars >>

PageNext ==
    \/ \E p \in PageNums : ReadTextItems(p)
    \/ \E p \in PageNums : ReadText(p)
    \/ \E p \in PageNums : ReadError(p)
    \/ \E p \in PageNums : DisposePage(p)
    \/ ReadDocText
    \/ DisposeDoc


\* ========================================================================
\* PART 2.  PdfParser.parse(): startxref, the /Prev chain, the recovery scan,
\*          the /Root check and the empty-password unlock
\* ========================================================================

\* Bounds of the file model.
MaxSections == 2
\* Depth of the call stack of the engine, in activations of a recursive
\* method (getObject, parseXRefAt, collectPages); a call beyond it raises
\* RangeError (maximum call stack size exceeded).
StackLimit == 128
MaxEntries == 2
MaxObjNum == 2

ObjNums == 1 .. MaxObjNum

\* One line of an xref section: an object number, in use ("n") or free ("f").
Entry == [num : ObjNums, free : BOOLEAN]
EntLists == SeqsUpTo(Entry, MaxEntries)

\* What a trailer's /Prev is: absent, the offset of the next older section,
\* or an offset at which no xref section starts.
PrevKinds == {"none", "older", "garbage"}
\* A /Prev that closes a cycle: the offset of the section itself, or the
\* offset of the newest section of the file.
CyclicPrevKinds == {"self", "newest"}
\* What follows the last startxref marker: nothing (no marker), an offset at
\* which no xref section starts, or the offset of the newest section.
StartKinds == {"missing", "garbage", "newest"}

\* What the trailer's /Encrypt reference leads to (a dictionary, an object
\* that is none, or a stream whose /Length is a reference to the stream
\* itself), the entries of that dictionary, the trailer's /ID, and whether
\* /U is the value the empty password derives.
EncParams ==
    [dictKind : {"dict", "notdict", "cycle"}, idOk : BOOLEAN, filterStd : BOOLEAN,
     v : {1, 4, 5}, r : {2, 3}, hasO : BOOLEAN, hasU : BOOLEAN,
     cfmAESV2 : BOOLEAN, uMatches : BOOLEAN]

NoEnc == [dictKind |-> "dict", idOk |-> TRUE, filterStd |-> TRUE, v |-> 1, r |-> 2,
          hasO |-> TRUE, hasU |-> TRUE, cfmAESV2 |-> FALSE, uMatches |-> TRUE]

\* ---- the bytes of the file, as the items met reading it front to back ----
\* Item 0 is the header; every in-use line of a section has its object in
\* front of that section; a section is a classic table ("xref" ... "trailer")
\* or, in a file written with xref streams, an indirect stream object.
XRefStmNum(i) == MaxObjNum + i

RECURSIVE SecObjs(_, _, _)
SecObjs(sec, i, j) ==
    IF j > Len(sec.ents) THEN << >>
    ELSE (IF sec.ents[j].free THEN << >>
          ELSE << [kind |-> "obj", num |-> sec.ents[j].num, sec |-> i, pos |-> j] >>)
         \o SecObjs(sec, i, j + 1)

RECURSIVE ItemsFrom(_, _)
ItemsFrom(f, i) ==
    IF i > Len(f.secs) THEN << >>
    ELSE SecObjs(f.secs[i], i, 1)
         \o << [kind |-> IF f.stm THEN "xrefstm" ELSE "xref",
                num |-> XRefStmNum(i), sec |-> i, pos |-> 0] >>
         \o ItemsFrom(f, i + 1)

FileItems(f) == ItemsFrom(f, 1)

OffsetOfSection(f, i) ==
    CHOOSE k \in 1 .. Len(FileItems(f)) :
        FileItems(f)[k].kind \in {"xref", "xrefstm"} /\ FileItems(f)[k].sec = i

OffsetOfObj(f, i, j) ==
    CHOOSE k \in 1 .. Len(FileItems(f)) :
        LET it == FileItems(f)[k] IN it.kind = "obj" /\ it.sec = i /\ it.pos = j

\* An offset at which nothing can be read: past the end of the file.
GarbageOffset(f) == Len(FileItems(f)) + 1

PrevOffset(f, i) ==
    LET k == f.secs[i].prev
    IN  IF k = "none" THEN None
        ELSE IF k = "older" /\ i > 1 THEN Some(OffsetOfSection(f, i - 1))
        ELSE IF k = "self" THEN Some(OffsetOfSection(f, i))
        ELSE IF k = "newest" THEN Some(OffsetOfSection(f, Len(f.secs)))
        ELSE Some(GarbageOffset(f))

\* ---- maps with insertion order (JavaScript Map) ----
MapHas(m, n) == \E k \in 1 .. Len(m) : m[k].num = n
MapGet(m, n) ==
    IF MapHas(m, n) THEN Some((m[CHOOSE k \in 1 .. Len(m) : m[k].num = n]).entry)
    ELSE None
MapSet(m, n, e) == Append(m, [num |-> n, entry |-> e])
EmptyMap == << >>

\* ---- xref.ts ----
\* findStartXRef: the offset after the last startxref marker, or a throw.
findStartXRef(f) ==
    IF f.start = "missing"
    THEN [ok |-> FALSE, off |-> 0]
    ELSE IF f.start = "newest"
    THEN [ok |-> TRUE, off |-> OffsetOfSection(f, Len(f.secs))]
    ELSE [ok |-> TRUE, off |-> GarbageOffset(f)]

\* The loop over the lines of one section (parseXRefTable 91-106, and the
\* records of parseXRefStream 187-219): the first line for a number wins.
XRefEntryOf(f, i, j) ==
    IF f.secs[i].ents[j].free
    THEN [offset |-> 0, free |-> TRUE]
    ELSE [offset |-> OffsetOfObj(f, i, j), free |-> FALSE]

RECURSIVE SectionTable(_, _, _, _)
SectionTable(f, i, j, table) ==
    IF j > Len(f.secs[i].ents) THEN table
    ELSE LET n == f.secs[i].ents[j].num
         IN  SectionTable(f, i, j + 1,
                 IF MapHas(table, n) THEN table
                 ELSE MapSet(table, n, XRefEntryOf(f, i, j)))

\* extractTrailerInfo: root (0 when the dictionary has no /Root reference),
\* prev, and the dictionary itself (named by its section).
extractTrailerInfo(f, i) ==
    [root |-> f.secs[i].root, prev |-> PrevOffset(f, i), dict |-> i]

\* parseXRefTable / parseXRefStream at an offset: a throw unless a section of
\* the matching kind starts there.
parseXRefSection(f, off) ==
    IF off < 1 \/ off > Len(FileItems(f)) \/ FileItems(f)[off].kind = "obj"
    THEN [ok |-> FALSE, sec |-> 0, table |-> EmptyMap, trailer |-> None]
    ELSE LET i == FileItems(f)[off].sec
         IN  [ok |-> TRUE, sec |-> i, table |-> SectionTable(f, i, 1, EmptyMap),
              trailer |-> Some(extractTrailerInfo(f, i))]

\* scanForObjects, stage 1: every "N G obj" header, first one per number.
RECURSIVE ScanTable(_, _, _)
ScanTable(items, k, table) ==
    IF k > Len(items) THEN table
    ELSE ScanTable(items, k + 1,
             IF items[k].kind = "xref" \/ MapHas(table, items[k].num) THEN table
             ELSE MapSet(table, items[k].num, [offset |-> k, free |-> FALSE]))

\* stage 2: the dictionaries after each "trailer" keyword, front to back: the
\* first with /Root ends the search, the first of all is kept otherwise.
RECURSIVE ScanTrailers(_, _, _, _)
ScanTrailers(f, items, k, found) ==
    IF k > Len(items) THEN found
    ELSE IF items[k].kind # "xref" THEN ScanTrailers(f, items, k + 1, found)
    ELSE LET info == extractTrailerInfo(f, items[k].sec)
         IN  IF info.root # 0 THEN Some(info)
             ELSE ScanTrailers(f, items, k + 1, IF found = None THEN Some(info) ELSE found)

\* stage 3: without a /Root so far, the recovered objects in table order: the
\* first dictionary of /Type /XRef (or with a /Root) that has a /Root.
RECURSIVE ScanXRefObjects(_, _, _, _, _)
ScanXRefObjects(f, items, table, k, found) ==
    IF k > Len(table) THEN found
    ELSE LET it == items[table[k].entry.offset]
         IN  IF it.kind = "xrefstm" /\ f.secs[it.sec].root # 0
             THEN Some(extractTrailerInfo(f, it.sec))
             ELSE ScanXRefObjects(f, items, table, k + 1, found)

scanForObjects(f) ==
    LET items == FileItems(f)
        table == ScanTable(items, 1, EmptyMap)
        t2 == ScanTrailers(f, items, 1, None)
        t3 == IF t2 = None \/ t2[1].root = 0
              THEN ScanXRefObjects(f, items, table, 1, t2) ELSE t2
    IN  [ok |-> t3 # None, table |-> table, trailer |-> t3]

\* ---- parser.ts ----
\* mergeXRef: an entry is set only for a number the map does not have.
RECURSIVE mergeXRef_Overwrite(_, _)
mergeXRef_Overwrite(x, table) ==
    IF Len(table) = 0 THEN x
    ELSE mergeXRef_Overwrite(
             MapSet(SelectSeq(x, LAMBDA e : e.num # table[1].num),
                    table[1].num, table[1].entry),
             Tail(table))

RECURSIVE mergeXRef(_, _)
mergeXRef(x, table) ==
    IF Len(table) = 0 THEN x
    ELSE mergeXRef(IF MapHas(x, table[1].num) THEN x
                   ELSE MapSet(x, table[1].num, table[1].entry),
                   Tail(table))

\* parseXRefAt 290-296: the first trailer is kept; a later one only lends its
\* /Root when the kept one has none.
storeTrailer_KeepFirst(cur, t) == IF cur = None THEN Some(t) ELSE cur

storeTrailer(cur, t) ==
    IF cur = None THEN Some(t)
    ELSE IF cur[1].root = 0 /\ t.root # 0 THEN Some([cur[1] EXCEPT !.root = t.root])
    ELSE cur

\* parseXRefAt, the whole recursion from one offset: every section merged
\* and its trailer stored, /Prev followed until a section has none; a throw
\* leaves ok FALSE.
RECURSIVE parseXRefAt(_, _, _, _)
parseXRefAt(f, off, x, t) ==
    LET r == parseXRefSection(f, off)
    IN  IF ~r.ok THEN [ok |-> FALSE, xref |-> x, trailer |-> t]
        ELSE LET x1 == mergeXRef(x, r.table)
                 t1 == storeTrailer(t, r.trailer[1])
             IN  IF r.trailer[1].prev = None
                 THEN [ok |-> TRUE, xref |-> x1, trailer |-> t1]
                 ELSE parseXRefAt(f, r.trailer[1].prev[1], x1, t1)

\* getObject, the cache aside: the offset whose bytes it parses for object
\* n, 0 when the map has no entry or a free one (PDF_NULL).
ObjectRead(x, n) ==
    LET e == MapGet(x, n)
    IN  IF e = None \/ e[1].free THEN 0 ELSE e[1].offset

\* The catch block of parse(), first two lines: xref.clear(), trailer = undefined.
clearXRef_Keep(x) == x

clearXRef(x) == EmptyMap

\* !this.trailer?.root
rootMissing_OnlyUndefined(t) == t = None

rootMissing(t) == t = None \/ t[1].root = 0

\* dictGet(this.trailer.dict, 'Encrypt')
HasEncrypt(f, t) == f.secs[t[1].dict].encrypt

\* ---- crypto/security-handler.ts ----
\* tryEmptyPassword: null or the encryption info, and the md5 invocations
\* made (computeEncryptionKey: 1, plus 50 for R >= 3; verifyUserPasswordR3: 1).
tryEmptyPassword(e, hasImpl) ==
    IF ~hasImpl THEN [info |-> None, md5 |-> 0]
    ELSE IF ~e.filterStd \/ e.v >= 5 \/ ~e.hasO \/ ~e.hasU
    THEN [info |-> None, md5 |-> 0]
    ELSE LET calls == IF e.r >= 3 THEN 52 ELSE 1
         IN  IF e.uMatches
             THEN [info |-> Some([v |-> e.v, r |-> e.r, useAes |-> e.v = 4 /\ e.cfmAESV2]),
                   md5 |-> calls]
             ELSE [info |-> None, md5 |-> calls]

\* ---- the files parse() is run on ----
InUse(n) == [num |-> n, free |-> FALSE]

\* Root of section i: none, the catalog the file started with, or a catalog
\* of its own.
RootOf(choice, i) == IF choice = "no" THEN 0 ELSE IF choice = "same" THEN 1 ELSE i

\* The lines of a revision that touches object 1 at most once.
ShortLists == { << >>, << InUse(1) >>, << [num |-> 1, free |-> TRUE] >> }

\* Files with a sound startxref and /Prev chain: one section holds any
\* lines, the others touch object 1 at most once.
TableFiles ==
    { [secs |-> [i \in 1 .. n |->
                    [ents |-> IF i = h THEN rich ELSE e[i], root |-> 1,
                     prev |-> IF i = 1 THEN "none" ELSE "older", encrypt |-> FALSE]],
       start |-> "newest", stm |-> FALSE, enc |-> NoEnc]
      : n \in 1 .. MaxSections, h \in 1 .. MaxSections, rich \in EntLists,
        e \in [1 .. MaxSections -> ShortLists] }

\* Files damaged in startxref, /Prev or /Root, written with classic tables or
\* with xref streams; every revision rewrites object 1, or none has objects.
DamagedFiles ==
    { [secs |-> [i \in 1 .. n |->
                    [ents |-> e, root |-> RootOf(c[i], i),
                     prev |-> q[i], encrypt |-> FALSE]],
       start |-> k, stm |-> b, enc |-> NoEnc]
      : n \in 0 .. MaxSections,
        e \in {<< >>, << InUse(1) >>},
        c \in [1 .. MaxSections -> {"no", "same", "own"}],
        q \in [1 .. MaxSections -> PrevKinds],
        k \in StartKinds, b \in BOOLEAN }

\* Files whose trailers carry /Encrypt: all of them, or all but the newest.
EncryptedFiles ==
    { [secs |-> [i \in 1 .. n |->
                    [ents |-> << InUse(1) >>, root |-> 1,
                     prev |-> IF i = 1 THEN "none" ELSE "older",
                     encrypt |-> all \/ i < n]],
       start |-> k, stm |-> FALSE, enc |-> e]
      : n \in 1 .. MaxSections, all \in BOOLEAN,
        k \in {"garbage", "newest"}, e \in EncParams }

\* Files whose /Prev chain runs from the newest section down to the oldest
\* and from there back to the oldest itself or up to the newest, with or
\* without /Root and /Encrypt in the trailers.
CyclicFiles ==
    { [secs |-> [i \in 1 .. n |->
                    [ents |-> << InUse(1) >>, root |-> RootOf(c, i),
                     prev |-> IF i = 1 THEN k ELSE "older",
                     encrypt |-> d # "none"]],
       start |-> "newest", stm |-> b,
       enc |-> IF d = "none" THEN NoEnc ELSE [NoEnc EXCEPT !.dictKind = d]]
      : n \in 1 .. MaxSections, c \in {"no", "same"}, k \in CyclicPrevKinds,
        d \in {"none", "dict", "notdict", "cycle"}, b \in BOOLEAN }

WellFormedFile(f) ==
    /\ Len(f.secs) = 0 => f.start # "newest"
    /\ \A i \in 1 .. Len(f.secs) : i = 1 => f.secs[i].prev # "older"
    /\ f.enc # NoEnc => \E i \in 1 .. Len(f.secs) : f.secs[i].encrypt

Files ==
    { f \in TableFiles \cup DamagedFiles \cup EncryptedFiles \cup CyclicFiles :
        WellFormedFile(f) }

ParseInit ==
    /\ file \in Files
    /\ pc = "init"
    /\ nextOff = 0
    /\ xref = EmptyMap
    /\ trailer = None
    /\ visited = << >>
    /\ normalFailed = FALSE
    /\ encryptionInfo = None
    /\ parseResult = "none"
    /\ loadResult = "none"
    /\ cryptoSet = FALSE
    /\ md5Calls = 0
    /\ aesCalls = 0

ParseIdle ==
    /\ file = [secs |-> << >>, start |-> "missing", stm |-> FALSE, enc |-> NoEnc]
    /\ pc = "idle"
    /\ nextOff = 0
    /\ xref = EmptyMap
    /\ trailer = None
    /\ visited = << >>
    /\ normalFailed = FALSE
    /\ encryptionInfo = None
    /\ parseResult = "none"
    /\ loadResult = "none"
    /\ cryptoSet = FALSE
    /\ md5Calls = 0
    /\ aesCalls = 0

\* setCryptoImpl(md5, aesCbcDecrypt), before the load
SetCryptoImpl ==
    /\ pc = "init"
    /\ ~cryptoSet
    /\ cryptoSet' = TRUE
    /\ UNCHANGED << file, pc, nextOff, xref, trailer, visited, normalFailed,
                    encryptionInfo, parseResult, loadResult, md5Calls, aesCalls >>
    /\ UNCHANGED << pageVars, resolveVars, extVars, lateVars >>

\* parse(), line 118: findStartXRef
FindStartXRef ==
    /\ pc = "init"
    /\ LET r == findStartXRef(file)
       IN  /\ pc' = IF r.ok THEN "xref" ELSE "catch"
           /\ nextOff' = r.off
    /\ UNCHANGED << file, xref, trailer, visited, normalFailed, encryptionInfo,
                    parseResult, loadResult, cryptoSet, md5Calls, aesCalls >>
    /\ UNCHANGED << pageVars, resolveVars, extVars, lateVars >>

\* parseXRefAt(nextOff): one section read, merged, its trailer stored, /Prev
\* followed by a nested call; a throw goes to the catch block of parse(),
\* the RangeError of a call made with the engine's stack full included.
ParseXRefAt ==
    /\ pc = "xref"
    /\ LET r == parseXRefSection(file, nextOff)
       IN  IF ~r.ok \/ Len(visited) >= StackLimit
           THEN /\ pc' = "catch"
                /\ UNCHANGED << nextOff, xref, trailer, visited >>
           ELSE /\ xref' = mergeXRef(xref, r.table)
                /\ trailer' = storeTrailer(trailer, r.trailer[1])
                /\ visited' = Append(visited, r.sec)
                /\ IF r.trailer[1].prev = None
                   THEN pc' = "root" /\ UNCHANGED nextOff
                   ELSE pc' = "xref" /\ nextOff' = r.trailer[1].prev[1]
    /\ UNCHANGED << file, normalFailed, encryptionInfo, parseResult,
                    loadResult, cryptoSet, md5Calls, aesCalls >>
    /\ UNCHANGED << pageVars, resolveVars, extVars, lateVars >>

\* parse(), lines 120-127: the catch block
Fallback ==
    /\ pc = "catch"
    /\ normalFailed' = TRUE
    /\ LET recovery == scanForObjects(file)
       IN  IF ~recovery.ok
           THEN /\ xref' = clearXRef(xref)
                /\ trailer' = None
                /\ parseResult' = "parse_error"
                /\ loadResult' = "parse_error"
                /\ pc' = "done"
           ELSE /\ xref' = mergeXRef(clearXRef(xref), recovery.table)
                /\ trailer' = recovery.trailer
                /\ pc' = "root"
                /\ UNCHANGED << parseResult, loadResult >>
    /\ UNCHANGED << file, nextOff, visited, encryptionInfo, cryptoSet, md5Calls, aesCalls >>
    /\ UNCHANGED << pageVars, resolveVars, extVars, lateVars >>

\* parse(), lines 129-134: the /Root check, then the look for /Encrypt
CheckRoot ==
    /\ pc = "root"
    /\ IF rootMissing(trailer)
       THEN /\ parseResult' = "parse_error"
            /\ loadResult' = "parse_error"
            /\ pc' = "done"
       ELSE IF HasEncrypt(file, trailer)
       THEN /\ pc' = "encrypt"
            /\ UNCHANGED << parseResult, loadResult >>
       ELSE /\ parseResult' = "ok"
            /\ pc' = "pages"
            /\ UNCHANGED loadResult
    /\ UNCHANGED << file, nextOff, xref, trailer, visited, normalFailed,
                    encryptionInfo, cryptoSet, md5Calls, aesCalls >>
    /\ UNCHANGED << pageVars, resolveVars, extVars, lateVars >>

\* parse(), lines 133-151: resolveDict of /Encrypt, /ID[0], tryEmptyPassword.
\* resolveDict goes through resolve() and getObject(): on the stream whose
\* /Length names the stream itself, parseObjectAt and resolveLength call
\* getObject again with nothing cached and resolveDepth untouched, until the
\* call stack is exhausted; the RangeError leaves parse().
Unlock ==
    /\ pc = "encrypt"
    /\ LET e == file.enc
           r == tryEmptyPassword(e, cryptoSet)
       IN  IF e.dictKind = "cycle"
           THEN /\ parseResult' = "RangeError"
                /\ loadResult' = "RangeError"
                /\ pc' = "done"
                /\ UNCHANGED << encryptionInfo, md5Calls >>
           ELSE IF e.dictKind # "dict" \/ ~e.idOk
           THEN /\ parseResult' = "unsupported"
                /\ loadResult' = "unsupported"
                /\ pc' = "done"
                /\ UNCHANGED << encryptionInfo, md5Calls >>
           ELSE /\ md5Calls' = md5Calls + r.md5
                /\ IF r.info = None
                   THEN /\ parseResult' = "unsupported"
                        /\ loadResult' = "unsupported"
                        /\ pc' = "done"
                        /\ UNCHANGED encryptionInfo
                   ELSE /\ encryptionInfo' = r.info
                        /\ parseResult' = "ok"
                        /\ pc' = "pages"
                        /\ UNCHANGED loadResult
    /\ UNCHANGED << file, nextOff, xref, trailer, visited, normalFailed,
                    cryptoSet, aesCalls >>
    /\ UNCHANGED << pageVars, resolveVars, extVars, lateVars >>

\* Extractly.fromBuffer after parse(): getPages() resolves the catalog through
\* the xref map (getObject, which decrypts what it parses when the file is
\* unlocked: one object key by md5, the payload by AES when useAes).
GetPages ==
    /\ pc = "pages"
    /\ LET e == MapGet(xref, trailer[1].root)
           inUse == e # None /\ ~e[1].free
       IN  /\ loadResult' = IF inUse THEN "document" ELSE "parse_error"
           /\ md5Calls' = IF inUse /\ encryptionInfo # None THEN md5Calls + 1 ELSE md5Calls
           /\ aesCalls' = IF inUse /\ encryptionInfo # None /\ encryptionInfo[1].useAes
                          THEN aesCalls + 1 ELSE aesCalls
    /\ pc' = "done"
    /\ UNCHANGED << file, nextOff, xref, trailer, visited, normalFailed,
                    encryptionInfo, parseResult, cryptoSet >>
    /\ UNCHANGED << pageVars, resolveVars, extVars, lateVars >>

ParseNext ==
    \/ SetCryptoImpl
    \/ FindStartXRef
    \/ ParseXRefAt
    \/ Fallback
    \/ CheckRoot
    \/ Unlock
    \/ GetPages


\* ========================================================================
\* PART 3.  PdfParser.resolve / getObject over an xref map and object graph
\* ========================================================================

\* resolve() refuses to nest deeper than this.
MAX_RESOLVE_DEPTH == 100

\* Object numbers of the graph.
MaxObjs == 2
ObjIds == 1 .. MaxObjs

\* What the xref map and the bytes hold for one object number:
\*   absent      no entry, or a free one
\*   number      an entry with an offset; a number is stored there
\*   stream      an entry with an offset; a stream with /Length a number
\*               (length = 0) or a reference to object `length`, and /Filter
\*               a name (filter = 0) or a reference to object `filter`
\*   compressed  an entry of type 2: stored in object stream `container`
ObjDescs ==
    [kind : {"absent", "number"}, length : {0}, filter : {0}, container : {0}]
    \cup [kind : {"stream"}, length : {0} \cup ObjIds, filter : {0} \cup ObjIds,
          container : {0}]
    \cup [kind : {"compressed"}, length : {0}, filter : {0}, container : ObjIds]

Frame(n, via) == [num |-> n, via |-> via, stage |-> "enter"]

Top == stack[Len(stack)]

ResolveInit ==
    /\ objects \in [ObjIds -> ObjDescs]
    /\ stack = << >>
    /\ resolveDepth = 0
    /\ objectCache = [n \in ObjIds |-> None]
    /\ ret = None
    /\ outcome = "idle"

ResolveIdle ==
    /\ objects = << >>
    /\ stack = << >>
    /\ resolveDepth = 0
    /\ objectCache = << >>
    /\ ret = None
    /\ outcome = "idle"

\* A nested getObject(n) call made by the innermost activation, which waits
\* in `stage` for it. When the engine's stack is full the call raises
\* RangeError: it unwinds every activation, and the finally block of each
\* resolve() on the stack takes its increment of resolveDepth back.
Call(n, via, stage) ==
    IF Len(stack) >= StackLimit
    THEN /\ stack' = << >>
         /\ resolveDepth' = 0
         /\ ret' = None
         /\ outcome' = "RangeError"
    ELSE /\ stack' = Append([stack EXCEPT ![Len(stack)].stage = stage], Frame(n, via))
         /\ resolveDepth' = IF via = "resolve" THEN resolveDepth + 1 ELSE resolveDepth
         /\ ret' = None
         /\ UNCHANGED outcome

\* The innermost getObject activation returns v; one entered through
\* resolve() passes its finally block.
Return(v) ==
    /\ stack' = SubSeq(stack, 1, Len(stack) - 1)
    /\ resolveDepth' = IF Top.via = "resolve" THEN resolveDepth - 1 ELSE resolveDepth
    /\ ret' = Some(v)
    /\ outcome' = IF Len(stack) = 1 THEN "returned" ELSE outcome

\* resolve(ref n) called from outside, resolveDepth being 0
Resolve(n) ==
    /\ stack = << >>
    /\ stack' = << Frame(n, "resolve") >>
    /\ resolveDepth' = resolveDepth + 1
    /\ ret' = None
    /\ outcome' = "running"
    /\ UNCHANGED << objects, objectCache >>
    /\ UNCHANGED << pageVars, parseVars, extVars, lateVars >>

\* getObject(n) from its entry to its first nested call or to its return
GetObject ==
    /\ stack # << >>
    /\ Top.stage = "enter"
    /\ LET n == Top.num
           d == objects[n]
       IN  IF objectCache[n] # None
           THEN Return(objectCache[n][1]) /\ UNCHANGED objectCache
           ELSE IF d.kind = "absent"
           THEN Return("null") /\ UNCHANGED objectCache
           ELSE IF d.kind = "compressed"
           THEN Call(d.container, "container", "awaitContainer") /\ UNCHANGED objectCache
           ELSE IF d.kind = "number"
           THEN Return("number") /\ objectCache' = [objectCache EXCEPT ![n] = Some("number")]
           ELSE IF d.length = 0
           THEN Return("stream") /\ objectCache' = [objectCache EXCEPT ![n] = Some("stream")]
           ELSE Call(d.length, "length", "awaitLength") /\ UNCHANGED objectCache
    /\ UNCHANGED objects
    /\ UNCHANGED << pageVars, parseVars, extVars, lateVars >>

\* parseObjectAt after resolveLength got its object back: the stream is
\* cut by /Length or at endstream, cached and returned.
ResolveLengthReturns ==
    /\ stack # << >>
    /\ Top.stage = "awaitLength"
    /\ ret # None
    /\ Return("stream")
    /\ objectCache' = [objectCache EXCEPT ![Top.num] = Some("stream")]
    /\ UNCHANGED objects
    /\ UNCHANGED << pageVars, parseVars, extVars, lateVars >>

\* getCompressedObject after getObject(streamObjNum) returned: not a stream
\* gives null; otherwise decodeStreamData resolves the /Filter of the
\* container through resolve(), which yields null at the cap.
ContainerReturns ==
    /\ stack # << >>
    /\ Top.stage = "awaitContainer"
    /\ ret # None
    /\ LET n == Top.num
           c == objects[n].container
       IN  IF ret[1] # "stream"
           THEN Return("null") /\ objectCache' = [objectCache EXCEPT ![n] = Some("null")]
           ELSE IF objects[c].filter = 0 \/ resolveDepth >= MAX_RESOLVE_DEPTH
           THEN Return("other") /\ objectCache' = [objectCache EXCEPT ![n] = Some("other")]
           ELSE Call(objects[c].filter, "resolve", "awaitFilter") /\ UNCHANGED objectCache
    /\ UNCHANGED objects
    /\ UNCHANGED << pageVars, parseVars, extVars, lateVars >>

\* getCompressedObject after the /Filter came back: the entry is parsed out
\* of the decoded container, cached and returned.
FilterReturns ==
    /\ stack # << >>
    /\ Top.stage = "awaitFilter"
    /\ ret # None
    /\ Return("other")
    /\ objectCache' = [objectCache EXCEPT ![Top.num] = Some("other")]
    /\ UNCHANGED objects
    /\ UNCHANGED << pageVars, parseVars, extVars, lateVars >>

ResolveNext ==
    \/ \E n \in ObjIds : Resolve(n)
    \/ GetObject
    \/ ResolveLengthReturns
    \/ ContainerReturns
    \/ FilterReturns

\* ========================================================================
\* PART 4.  The content-stream interpreter (src/content/interpreter.ts)
\* ========================================================================

\* interpretContentStream returns at once when its depth is above this.
FormDepthCap == 10

\* Bound of the content model: the streams of one /Contents array.
MaxStreams == 2

\* The lexical units a content stream is written in: numbers, strings
\* (their bytes), names, and runs of regular characters (operators).
Num(v) == [type |-> "number", num |-> v, str |-> "", bytes |-> << >>]
Str(b) == [type |-> "string", num |-> 0, str |-> "", bytes |-> b]
Name(s) == [type |-> "name", num |-> 0, str |-> s, bytes |-> << >>]
Word(w) == [type |-> "word", num |-> 0, str |-> w, bytes |-> << >>]
\* The operand collectArray builds from `[ (b) adj ]`: a string and a number.
Arr(b, adj) == [type |-> "array", num |-> adj, str |-> "", bytes |-> b]

\* The first byte of an operator as it stands in the stream.
FirstByte(w) ==
    CASE w = "\"" -> 34
      [] w = "'" -> 39
      [] w = "BT" -> 66
      [] w = "Do" -> 68
      [] w = "ET" -> 69
      [] w = "Q" -> 81
      [] w \in {"Tf", "Tj", "TL", "T*", "Td", "Tw", "Tc", "Tz", "Ts", "Tr", "Tm", "TJ"} -> 84
      [] w = "cm" -> 99
      [] w = "q" -> 113

EOFToken == [type |-> "EOF", num |-> 0, str |-> "", bytes |-> << >>]

\* PdfLexer.nextToken from position pos: a run of regular characters is a
\* Keyword when its first byte lies in 0x41..0x7a; any other byte that
\* starts no number, string, name or bracket is skipped and the lexer tries
\* again.
RECURSIVE nextToken(_, _)
nextToken(data, pos) ==
    IF pos > Len(data) THEN [tok |-> EOFToken, pos |-> pos]
    ELSE LET u == data[pos]
         IN  IF u.type # "word" THEN [tok |-> u, pos |-> pos + 1]
             ELSE IF FirstByte(u.str) >= 65 /\ FirstByte(u.str) <= 122
             THEN [tok |-> [u EXCEPT !.type = "Keyword"], pos |-> pos + 1]
             ELSE nextToken(data, pos + 1)

\* The fonts of the page resources: /F1 and /F2, simple fonts without
\* ToUnicode or /Encoding, with a fixed glyph width.
PageFonts ==
    [F1 |-> [baseFont |-> "Helvetica", width |-> 1],
     F2 |-> [baseFont |-> "Courier", width |-> 2]]

\* fonts.get(name) ?? null
fontsGet(name) == IF name \in DOMAIN PageFonts THEN Some(PageFonts[name]) ELSE None

Identity == << 1, 0, 0, 1, 0, 0 >>

multiplyMatrix(a, b) ==
    << a[1] * b[1] + a[2] * b[3],
       a[1] * b[2] + a[2] * b[4],
       a[3] * b[1] + a[4] * b[3],
       a[3] * b[2] + a[4] * b[4],
       a[5] * b[1] + a[6] * b[3] + b[5],
       a[5] * b[2] + a[6] * b[4] + b[6] >>

Abs(x) == IF x < 0 THEN -x ELSE x

\* The local variables of one interpretContentStream activation, and the
\* includeInvisibleText parameter its closures read.
NewState(ctm, opt) ==
    [textObjectId |-> 0,
     currentFont |-> None,
     fontSize |-> 0,
     charSpacing |-> 0,
     wordSpacing |-> 0,
     horizontalScaling |-> 100,
     textLeading |-> 0,
     textRise |-> 0,
     textRenderMode |-> 0,
     includeInvisibleText |-> opt,
     tm |-> Identity,
     tlm |-> Identity,
     ctm |-> ctm,
     stateStack |-> << >>,
     operands |-> << >>]

getNum(operands, idx) ==
    IF idx < 0 \/ idx >= Len(operands) THEN None
    ELSE IF operands[idx + 1].type = "number" THEN Some(operands[idx + 1].num) ELSE None

getName(operands, idx) ==
    IF idx < 0 \/ idx >= Len(operands) THEN None
    ELSE IF operands[idx + 1].type = "name" THEN Some(operands[idx + 1].str) ELSE None

getStr(operands, idx) ==
    IF idx < 0 \/ idx >= Len(operands) THEN None
    ELSE IF operands[idx + 1].type = "string" THEN Some(operands[idx + 1].bytes) ELSE None

getArr(operands, idx) ==
    IF idx < 0 \/ idx >= Len(operands) THEN None
    ELSE IF operands[idx + 1].type = "array" THEN Some(operands[idx + 1]) ELSE None

\* a ?? d
OrElse(a, d) == IF a = None THEN d ELSE a[1]

\* decodeTextString for a simple font: the bytes from 0x20 up, as characters
decodeTextString(bytes, font) == SelectSeq(bytes, LAMBDA b : b >= 32)

computeTextMetrics(bytes, font) ==
    [totalWidth |-> Len(bytes) * font.width,
     charCount |-> Len(bytes),
     spaceCount |-> Len(SelectSeq(bytes, LAMBDA b : b = 32))]

\* emitTextRun, its first line: `if (textRenderMode === 3 && !includeInvisibleText) return`
runDropped_Never(st) == FALSE

runDropped(st) == st.textRenderMode = 3 /\ ~st.includeInvisibleText

\* emitTextRun and the advancePosition it ends with. The streams of the
\* model keep advance * horizontalScaling a multiple of 100.
emitTextRun(bytes, font, st, its) ==
    LET txt == decodeTextString(bytes, font)
        metrics == computeTextMetrics(bytes, font)
        effectiveSize == st.fontSize * Abs(IF st.tm[4] # 0 THEN st.tm[4] ELSE st.tm[1])
        x == st.tm[5] * st.ctm[1] + st.tm[6] * st.ctm[3] + st.ctm[5]
        y == st.tm[5] * st.ctm[2] + st.tm[6] * st.ctm[4] + st.ctm[6]
        advance == metrics.totalWidth * st.fontSize
                   + metrics.charCount * st.charSpacing
                   + metrics.spaceCount * st.wordSpacing
    IN  IF runDropped(st) THEN [st |-> st, items |-> its]
        ELSE IF txt = << >> THEN [st |-> st, items |-> its]
        ELSE [st |-> [st EXCEPT !.tm[5] = @ + (advance * st.horizontalScaling) \div 100],
              items |-> Append(its,
                  [text |-> txt, x |-> x, y |-> y,
                   fontSize |-> effectiveSize,
                   fontName |-> font.baseFont,
                   width |-> metrics.totalWidth * st.fontSize * Abs(st.tm[1]),
                   textObjectId |-> st.textObjectId])]

\* `if (str && currentFont) emitTextRun(str, currentFont)`
showString(str, st, its) ==
    IF str # None /\ st.currentFont # None
    THEN emitTextRun(str[1], st.currentFont[1], st, its)
    ELSE [st |-> st, items |-> its]

\* tlm = [1 0 0 1 0 -textLeading] x tlm; tm = tlm
nextLine(st) ==
    LET m == multiplyMatrix(<< 1, 0, 0, 1, 0, -st.textLeading >>, st.tlm)
    IN  [st EXCEPT !.tlm = m, !.tm = m]

SavedState_NoRenderMode(st) ==
    [tm |-> st.tm, tlm |-> st.tlm, ctm |-> st.ctm, font |-> st.currentFont,
     fontSize |-> st.fontSize, charSpacing |-> st.charSpacing,
     wordSpacing |-> st.wordSpacing, horizontalScaling |-> st.horizontalScaling,
     textLeading |-> st.textLeading, textRise |-> st.textRise,
     textRenderMode |-> 0]

SavedState(st) ==
    [tm |-> st.tm, tlm |-> st.tlm, ctm |-> st.ctm, font |-> st.currentFont,
     fontSize |-> st.fontSize, charSpacing |-> st.charSpacing,
     wordSpacing |-> st.wordSpacing, horizontalScaling |-> st.horizontalScaling,
     textLeading |-> st.textLeading, textRise |-> st.textRise,
     textRenderMode |-> st.textRenderMode]

\* The switch on the operator, for every operator but Do.
execOp(op, st, its) ==
    LET ops == st.operands
        same == [st |-> st, items |-> its]
    IN  CASE op = "BT" ->
               [st |-> [st EXCEPT !.textObjectId = @ + 1, !.tm = Identity, !.tlm = Identity],
                items |-> its]
          [] op = "Tf" ->
               LET size == getNum(ops, Len(ops) - 1)
                   name == getName(ops, Len(ops) - 2)
                   s1 == IF name # None
                         THEN [st EXCEPT !.currentFont = fontsGet(name[1])]
                         ELSE st
               IN  [st |-> IF size # None THEN [s1 EXCEPT !.fontSize = size[1]] ELSE s1,
                    items |-> its]
          [] op = "Tc" ->
               [st |-> [st EXCEPT !.charSpacing = OrElse(getNum(ops, 0), 0)], items |-> its]
          [] op = "Tw" ->
               [st |-> [st EXCEPT !.wordSpacing = OrElse(getNum(ops, 0), 0)], items |-> its]
          [] op = "Tz" ->
               [st |-> [st EXCEPT !.horizontalScaling = OrElse(getNum(ops, 0), 100)],
                items |-> its]
          [] op = "TL" ->
               [st |-> [st EXCEPT !.textLeading = OrElse(getNum(ops, 0), 0)], items |-> its]
          [] op = "Ts" ->
               [st |-> [st EXCEPT !.textRise = OrElse(getNum(ops, 0), 0)], items |-> its]
          [] op = "Tr" ->
               [st |-> [st EXCEPT !.textRenderMode = OrElse(getNum(ops, 0), 0)], items |-> its]
          [] op = "Tm" ->
               LET m == << OrElse(getNum(ops, 0), 1), OrElse(getNum(ops, 1), 0),
                           OrElse(getNum(ops, 2), 0), OrElse(getNum(ops, 3), 1),
                           OrElse(getNum(ops, 4), 0), OrElse(getNum(ops, 5), 0) >>
               IN  [st |-> [st EXCEPT !.tm = m, !.tlm = m], items |-> its]
          [] op = "cm" ->
               LET m == << OrElse(getNum(ops, 0), 1), OrElse(getNum(ops, 1), 0),
                           OrElse(getNum(ops, 2), 0), OrElse(getNum(ops, 3), 1),
                           OrElse(getNum(ops, 4), 0), OrElse(getNum(ops, 5), 0) >>
               IN  [st |-> [st EXCEPT !.ctm = multiplyMatrix(m, st.ctm)], items |-> its]
          [] op = "TJ" ->
               LET arr == getArr(ops, 0)
               IN  IF arr = None \/ st.currentFont = None THEN same
                   ELSE LET r == emitTextRun(arr[1].bytes, st.currentFont[1], st, its)
                            displacement == arr[1].num * st.fontSize
                        IN  [st |-> [r.st EXCEPT !.tm[5] =
                                        @ - (displacement * st.horizontalScaling) \div 100000],
                             items |-> r.items]
          [] op = "Td" ->
               LET tx == OrElse(getNum(ops, 0), 0)
                   ty == OrElse(getNum(ops, 1), 0)
                   m == multiplyMatrix(<< 1, 0, 0, 1, tx, ty >>, st.tlm)
               IN  [st |-> [st EXCEPT !.tlm = m, !.tm = m], items |-> its]
          [] op = "T*" ->
               [st |-> nextLine(st), items |-> its]
          [] op = "Tj" ->
               showString(getStr(ops, 0), st, its)
          [] op = "'" ->
               showString(getStr(ops, 0), nextLine(st), its)
          [] op = "\"" ->
               LET s1 == [st EXCEPT !.wordSpacing = OrElse(getNum(ops, 0), @),
                                    !.charSpacing = OrElse(getNum(ops, 1), @)]
               IN  showString(getStr(ops, 2), nextLine(s1), its)
          [] op = "q" ->
               [st |-> [st EXCEPT !.stateStack = Append(@, SavedState(st))], items |-> its]
          [] op = "Q" ->
               IF st.stateStack = << >> THEN same
               ELSE LET s == st.stateStack[Len(st.stateStack)]
                    IN  [st |-> [st EXCEPT !.tm = s.tm, !.tlm = s.tlm, !.ctm = s.ctm,
                                           !.currentFont = s.font,
                                           !.fontSize = s.fontSize,
                                           !.charSpacing = s.charSpacing,
                                           !.wordSpacing = s.wordSpacing,
                                           !.horizontalScaling = s.horizontalScaling,
                                           !.textLeading = s.textLeading,
                                           !.textRise = s.textRise,
                                           !.textRenderMode = s.textRenderMode,
                                           !.stateStack = SubSeq(@, 1, Len(@) - 1)],
                         items |-> its]
          [] OTHER -> same

\* One activation of interpretContentStream: its lexer (data, pos), its
\* locals and its depth; textObject is bookkeeping of the model, the number
\* of the BT that opened the activation's current text object (0: none yet).
NewFrame(data, depth, ctm, opt) ==
    [data |-> data, pos |-> 1, st |-> NewState(ctm, opt), depth |-> depth, textObject |-> 0]

\* One round of the while loop on a token that is an operand or an
\* operator other than Do; an operator clears the operands.
stepToken(fr, its) ==
    LET t == nextToken(fr.data, fr.pos)
    IN  IF t.tok.type # "Keyword"
        THEN [fr |-> [fr EXCEPT !.pos = t.pos, !.st.operands = Append(@, t.tok)],
              items |-> its]
        ELSE LET r == execOp(t.tok.str, fr.st, its)
             IN  [fr |-> [fr EXCEPT !.pos = t.pos, !.st = [r.st EXCEPT !.operands = << >>]],
                  items |-> r.items]

\* `if (depth > 10) return`
formDepthExceeded_Eleven(depth) == depth > FormDepthCap + 1

formDepthExceeded(depth) == depth > FormDepthCap

\* The Form XObjects of the page resources; a form without /Resources
\* takes those of its caller, so every stream sees the same two names.
FormNames == {"X", "Y"}

\* handleFormXObject up to the nested call: the stream to interpret and the
\* combined matrix, or None when the name resolves to no Form stream.
formCall(name, forms, ctm) ==
    IF name = None THEN None
    ELSE IF name[1] \notin FormNames THEN None
    ELSE IF ~forms[name[1]].present THEN None
    ELSE Some([data |-> forms[name[1]].data,
               ctm |-> multiplyMatrix(forms[name[1]].matrix, ctm)])

\* interpretContentStream and handleFormXObject as functions from the
\* stream to the items it leaves in the shared array.
RECURSIVE interpretContentStream(_, _, _, _, _, _)
RECURSIVE runStream(_, _, _)
RECURSIVE handleFormXObject(_, _, _, _, _, _)

interpretContentStream(data, its, forms, depth, initialCtm, opt) ==
    IF formDepthExceeded(depth) THEN its
    ELSE runStream(NewFrame(data, depth, initialCtm, opt), its, forms)

runStream(fr, its, forms) ==
    LET t == nextToken(fr.data, fr.pos)
    IN  IF t.tok.type = "EOF" THEN its
        ELSE IF t.tok.type = "Keyword" /\ t.tok.str = "Do"
        THEN runStream([fr EXCEPT !.pos = t.pos, !.st.operands = << >>],
                       handleFormXObject(getName(fr.st.operands, 0), forms, its,
                                         fr.st.ctm, fr.depth, fr.st.includeInvisibleText),
                       forms)
        ELSE LET r == stepToken(fr, its)
             IN  runStream(r.fr, r.items, forms)

handleFormXObject(name, forms, its, ctm, depth, opt) ==
    LET c == formCall(name, forms, ctm)
    IN  IF c = None THEN its
        ELSE interpretContentStream(c[1].data, its, forms, depth + 1, c[1].ctm, opt)

\* extractTextItems: every stream of /Contents interpreted in turn into
\* one items array.
RECURSIVE extractTextItems(_, _, _, _)
extractTextItems(streams, forms, its, opt) ==
    IF streams = << >> THEN its
    ELSE extractTextItems(Tail(streams), forms,
                          interpretContentStream(Head(streams), its, forms, 0, Identity, opt),
                          opt)

\* ---- the pages the interpreter is run on ----

BeginText == << Word("BT") >>
EndText == << Word("ET") >>
SetFont(n, size) == << Name(n), Num(size), Word("Tf") >>
Show(b) == << Str(b), Word("Tj") >>
Invoke(n) == << Name(n), Word("Do") >>

\* Streams a /Contents array is put together from.
StreamPieces ==
    { BeginText \o SetFont("F1", 2) \o << Num(1), Num(0), Word("Td") >>
          \o Show(<< 65 >>) \o EndText,
      BeginText \o Show(<< 66 >>) \o EndText,
      << Num(3), Word("TL") >> \o BeginText \o SetFont("F2", 1)
          \o Show(<< 65, 32 >>) \o << Word("T*") >> \o Show(<< 66 >>) \o EndText,
      << Word("q") >> \o SetFont("F1", 3) \o << Num(2), Word("Tw"), Num(1), Word("Tc") >>,
      << Word("Q") >> \o BeginText \o Show(<< 67, 32 >>) \o Show(<< 10 >>)
          \o Show(<< 68 >>) \o EndText,
      BeginText \o SetFont("F1", 1) \o << Num(3), Word("TL") >>
          \o << Str(<< 65 >>), Word("'") >> \o Show(<< 66 >>) \o EndText,
      BeginText \o SetFont("F1", 1) \o << Num(3), Word("TL") >>
          \o << Num(1), Num(2), Str(<< 65, 32 >>), Word("\"") >> \o Show(<< 66 >>)
          \o EndText }

NoForm == [present |-> FALSE, data |-> << >>, matrix |-> Identity]
Form(data, e, f) == [present |-> TRUE, data |-> data, matrix |-> << 1, 0, 0, 1, e, f >>]
NoForms == [n \in FormNames |-> NoForm]

FormText == BeginText \o SetFont("F2", 1) \o Show(<< 66 >>) \o EndText

\* Resources whose forms are absent, plain, or invoke themselves: directly,
\* through each other, or twice in one body.
FormSets ==
    { NoForms,
      [NoForms EXCEPT !["X"] = Form(FormText, 0, 5)],
      [NoForms EXCEPT !["X"] = Form(FormText \o Invoke("X"), 0, 1)],
      [NoForms EXCEPT !["X"] = Form(BeginText \o Invoke("Y") \o Show(<< 65 >>) \o EndText, 1, 0),
                      !["Y"] = Form(FormText \o Invoke("X"), 0, 1)],
      [NoForms EXCEPT !["X"] = Form(Invoke("X") \o Invoke("X"), 0, 0)] }

FormPages ==
    { << BeginText \o SetFont("F1", 2) \o Show(<< 65 >>) \o Invoke("X")
           \o Show(<< 67 >>) \o EndText >>,
      << Invoke("X"), FormText >> }

ContentInit ==
    /\ \/ /\ contentStreams \in SeqsUpTo(StreamPieces, MaxStreams)
          /\ xobjects = NoForms
       \/ /\ contentStreams \in FormPages
          /\ xobjects \in FormSets
    /\ frames = << >>
    /\ pageItems = << >>
    /\ streamIdx = 0
    /\ cpc = "ready"
    /\ origin = << >>
    /\ btSerial = 0
    /\ capHits = 0

ContentIdle ==
    /\ contentStreams = << >>
    /\ xobjects = NoForms
    /\ frames = << >>
    /\ pageItems = << >>
    /\ streamIdx = 0
    /\ cpc = "idle"
    /\ origin = << >>
    /\ btSerial = 0
    /\ capHits = 0

TopFrame == frames[Len(frames)]
TopToken == nextToken(TopFrame.data, TopFrame.pos)
SetTop(fr) == [frames EXCEPT ![Len(frames)] = fr]

\* extractTextItems up to its loop: resources, fonts and content streams
\* are resolved
ExtractTextItems ==
    /\ cpc = "ready"
    /\ cpc' = "running"
    /\ UNCHANGED << contentStreams, xobjects, frames, pageItems, streamIdx, origin,
                    btSerial, capHits >>
    /\ UNCHANGED << pageVars, parseVars, resolveVars, loadVars, sortVars, treeVars, lateVars >>

\* the loop of extractTextItems calls interpretContentStream on the next
\* stream, at depth 0 and with no initial matrix
OpenStream ==
    /\ cpc = "running"
    /\ frames = << >>
    /\ streamIdx < Len(contentStreams)
    /\ streamIdx' = streamIdx + 1
    /\ frames' = << NewFrame(contentStreams[streamIdx + 1], 0, Identity, includeInvisibleText) >>
    /\ UNCHANGED << contentStreams, xobjects, pageItems, cpc, origin, btSerial, capHits >>
    /\ UNCHANGED << pageVars, parseVars, resolveVars, loadVars, sortVars, treeVars, lateVars >>

\* the next token is a number, a string or a name: it joins the operands
PushOperand ==
    /\ frames # << >>
    /\ TopToken.tok.type \in {"number", "string", "name", "array"}
    /\ frames' = SetTop(stepToken(TopFrame, pageItems).fr)
    /\ UNCHANGED << contentStreams, xobjects, pageItems, streamIdx, cpc, origin,
                    btSerial, capHits >>
    /\ UNCHANGED << pageVars, parseVars, resolveVars, loadVars, sortVars, treeVars, lateVars >>

\* the next token is an operator other than Do. btSerial numbers the BT
\* operators executed on the page, and origin records for every emitted
\* item the number of the BT that opened the text object it belongs to.
Operator ==
    /\ frames # << >>
    /\ TopToken.tok.type = "Keyword"
    /\ TopToken.tok.str # "Do"
    /\ LET r == stepToken(TopFrame, pageItems)
           bt == TopToken.tok.str = "BT"
           obj == IF bt THEN btSerial + 1 ELSE TopFrame.textObject
       IN  /\ frames' = SetTop([r.fr EXCEPT !.textObject = obj])
           /\ pageItems' = r.items
           /\ btSerial' = IF bt THEN btSerial + 1 ELSE btSerial
           /\ origin' = origin \o [i \in 1 .. (Len(r.items) - Len(pageItems)) |-> obj]
    /\ UNCHANGED << contentStreams, xobjects, streamIdx, cpc, capHits >>
    /\ UNCHANGED << pageVars, parseVars, resolveVars, loadVars, sortVars, treeVars, lateVars >>

\* the operator Do: handleFormXObject, and the entry of the nested
\* interpretContentStream with its depth check
InvokeForm ==
    /\ frames # << >>
    /\ TopToken.tok.type = "Keyword"
    /\ TopToken.tok.str = "Do"
    /\ LET fr == TopFrame
           c == formCall(getName(fr.st.operands, 0), xobjects, fr.st.ctm)
           caller == [fr EXCEPT !.pos = TopToken.pos, !.st.operands = << >>]
       IN  IF c = None
           THEN frames' = SetTop(caller) /\ UNCHANGED capHits
           ELSE IF formDepthExceeded(fr.depth + 1)
           THEN frames' = SetTop(caller) /\ capHits' = capHits + 1
           ELSE /\ frames' = Append(SetTop(caller),
                                    NewFrame(c[1].data, fr.depth + 1, c[1].ctm,
                                             fr.st.includeInvisibleText))
                /\ UNCHANGED capHits
    /\ UNCHANGED << contentStreams, xobjects, pageItems, streamIdx, cpc, origin, btSerial >>
    /\ UNCHANGED << pageVars, parseVars, resolveVars, loadVars, sortVars, treeVars, lateVars >>

\* the lexer is at its end: interpretContentStream returns
EndOfStream ==
    /\ frames # << >>
    /\ TopToken.tok.type = "EOF"
    /\ frames' = SubSeq(frames, 1, Len(frames) - 1)
    /\ UNCHANGED << contentStreams, xobjects, pageItems, streamIdx, cpc, origin,
                    btSerial, capHits >>
    /\ UNCHANGED << pageVars, parseVars, resolveVars, loadVars, sortVars, treeVars, lateVars >>

\* extractTextItems returns the items
ReturnItems ==
    /\ cpc = "running"
    /\ frames = << >>
    /\ streamIdx = Len(contentStreams)
    /\ cpc' = "done"
    /\ UNCHANGED << contentStreams, xobjects, frames, pageItems, streamIdx, origin,
                    btSerial, capHits >>
    /\ UNCHANGED << pageVars, parseVars, resolveVars, loadVars, sortVars, treeVars, lateVars >>

ContentNext ==
    \/ ExtractTextItems
    \/ OpenStream
    \/ PushOperand
    \/ Operator
    \/ InvokeForm
    \/ EndOfStream
    \/ ReturnItems

\* ========================================================================
\* PART 5.  Two loads of the same bytes, their pages read in any order
\*          (Extractly.fromBuffer, PDFPage.text, PdfParser.resolve/getObject)
\* ========================================================================

\* Bound of the load model: the objects of the file. The last one is an
\* object stream; page p has a content stream whose /Filter is `p 0 R`.
MaxLoadObjs == 3
LoadObjIds == 1 .. MaxLoadObjs
LoadPages == 1 .. (MaxLoadObjs - 1)
Container == MaxLoadObjs

\* What the file stores for object n < Container:
\*   kind "name"        an object of its own holding a filter name
\*   kind "other"       an object of its own holding anything else
\*   kind "compressed"  an entry of type 2 in the object stream: `raw` is
\*                      what parsing the stream's bytes as they stand yields
\*                      for it, `dec` what parsing its decoded bytes yields
\* and for the object stream: `filter`, 0 when it has no /Filter, or the
\* number of the object its /Filter refers to.
LoadObjDescs ==
    [kind : {"name", "other"}, raw : {"other"}, dec : {"other"}]
    \cup [kind : {"compressed"}, raw : {"name", "other"}, dec : {"name", "other"}]

LoadFiles ==
    [objs : [LoadPages -> LoadObjDescs], filter : {0} \cup LoadPages]

EmptyCache == [n \in LoadObjIds |-> None]

\* decodeStream applies a filter when /Filter resolves to a name
filterApplies(v) == v = "name"

\* The text of page p: its content stream is decoded by the filter that
\* `p 0 R` resolved to, when that is a name, and read as it stands otherwise.
pageText(p, v) == << p, IF filterApplies(v) THEN "decoded" ELSE "as stored" >>

LoadInit ==
    /\ loadFile \in LoadFiles
    /\ loadCache = [l \in 1 .. 2 |-> EmptyCache]
    /\ loadText = [l \in 1 .. 2 |-> [p \in LoadPages |-> None]]
    /\ reading = None
    /\ loadStack = << >>
    /\ loadDepth = 0
    /\ loadRet = None
    /\ readOrder = [l \in 1 .. 2 |-> << >>]

LoadIdle ==
    /\ loadFile = [objs |-> << >>, filter |-> 0]
    /\ loadCache = << >>
    /\ loadText = << >>
    /\ reading = None
    /\ loadStack = << >>
    /\ loadDepth = 0
    /\ loadRet = None
    /\ readOrder = << >>

\* The first read of page p's text in load l starts its extraction:
\* decodeStreamData calls resolve(p 0 R), resolveDepth being 0. The second
\* load is made once the first has been read.
StartRead(l, p) ==
    /\ reading = None
    /\ loadText[l][p] = None
    /\ l = 2 => \A q \in LoadPages : loadText[1][q] # None
    /\ reading' = Some(<< l, p >>)
    /\ loadStack' = << p >>
    /\ loadDepth' = 1
    /\ loadRet' = None
    /\ readOrder' = [readOrder EXCEPT ![l] = Append(@, p)]
    /\ UNCHANGED << loadFile, loadCache, loadText >>
    /\ UNCHANGED << pageVars, parseVars, resolveVars, contentVars, sortVars, treeVars, lateVars >>

\* getObject(n), entered through resolve(): from its entry to its return
\* or to the resolve() of the /Filter of the object stream, which
\* getCompressedObject has fetched and decodeStreamData decodes.
EnterGetObject ==
    /\ loadStack # << >>
    /\ loadRet = None
    /\ LET l == reading[1][1]
           n == loadStack[Len(loadStack)]
           d == loadFile.objs[n]
           cache == loadCache[l]
           withStream == [cache EXCEPT ![Container] = Some("stream")]
       IN  IF cache[n] # None
           THEN /\ loadRet' = cache[n]
                /\ loadStack' = SubSeq(loadStack, 1, Len(loadStack) - 1)
                /\ loadDepth' = loadDepth - 1
                /\ UNCHANGED loadCache
           ELSE IF d.kind # "compressed"
           THEN /\ loadRet' = Some(d.kind)
                /\ loadCache' = [loadCache EXCEPT ![l][n] = Some(d.kind)]
                /\ loadStack' = SubSeq(loadStack, 1, Len(loadStack) - 1)
                /\ loadDepth' = loadDepth - 1
           ELSE IF loadFile.filter = 0 \/ loadDepth >= MAX_RESOLVE_DEPTH
           THEN /\ loadRet' = Some(d.raw)
                /\ loadCache' = [loadCache EXCEPT ![l] = [withStream EXCEPT ![n] = Some(d.raw)]]
                /\ loadStack' = SubSeq(loadStack, 1, Len(loadStack) - 1)
                /\ loadDepth' = loadDepth - 1
           ELSE /\ loadRet' = None
                /\ loadCache' = [loadCache EXCEPT ![l] = withStream]
                /\ loadStack' = Append(loadStack, loadFile.filter)
                /\ loadDepth' = loadDepth + 1
    /\ UNCHANGED << loadFile, loadText, reading, readOrder >>
    /\ UNCHANGED << pageVars, parseVars, resolveVars, contentVars, sortVars, treeVars, lateVars >>

\* The /Filter of the object stream came back: the stream is decoded if it
\* is a name, the entry is parsed out of the result, cached and returned.
FilterResolved ==
    /\ loadStack # << >>
    /\ loadRet # None
    /\ LET l == reading[1][1]
           n == loadStack[Len(loadStack)]
           d == loadFile.objs[n]
           v == IF filterApplies(loadRet[1]) THEN d.dec ELSE d.raw
       IN  /\ loadRet' = Some(v)
           /\ loadCache' = [loadCache EXCEPT ![l][n] = Some(v)]
    /\ loadStack' = SubSeq(loadStack, 1, Len(loadStack) - 1)
    /\ loadDepth' = loadDepth - 1
    /\ UNCHANGED << loadFile, loadText, reading, readOrder >>
    /\ UNCHANGED << pageVars, parseVars, resolveVars, contentVars, sortVars, treeVars, lateVars >>

\* resolve(p 0 R) has returned: the content is decoded, the text assembled
\* and kept in the page
FinishRead ==
    /\ reading # None
    /\ loadStack = << >>
    /\ loadRet # None
    /\ loadText' = [loadText EXCEPT ![reading[1][1]][reading[1][2]] =
                        Some(pageText(reading[1][2], loadRet[1]))]
    /\ reading' = None
    /\ loadRet' = None
    /\ UNCHANGED << loadFile, loadCache, loadStack, loadDepth, readOrder >>
    /\ UNCHANGED << pageVars, parseVars, resolveVars, contentVars, sortVars, treeVars, lateVars >>

LoadNext ==
    \/ \E l \in 1 .. 2 : \E p \in LoadPages : StartRead(l, p)
    \/ EnterGetObject
    \/ FilterResolved
    \/ FinishRead

\* ========================================================================
\* PART 6.  sortTextItems (the text assembler)
\* ========================================================================

\* Bound of the sort model: the items handed to sortTextItems.
MaxSortItems == 3

\* The items: positions on two baselines far apart, at font size 2, from
\* two text objects.
SortItems == [x : 0 .. 2, y : {0, 10}, fontSize : {2}, textObjectId : 1 .. 2]

\* items.map((item, i) => ({ item, i }))
Tagged(its) == [k \in 1 .. Len(its) |-> [item |-> its[k], i |-> k - 1]]

\* The comparison function, given as cmp[a][b] for the entries at the
\* places a and b of s, is consistent: it splits the entries into classes
\* of equals that are totally ordered.
ConsistentCompare(s, cmp) ==
    \A a, b, c \in 1 .. Len(s) :
        /\ cmp[a][a] = 0
        /\ (cmp[a][b] < 0) = (cmp[b][a] > 0)
        /\ (cmp[a][b] < 0 /\ cmp[b][c] < 0) => cmp[a][c] < 0
        /\ (cmp[a][b] = 0 /\ cmp[b][c] = 0) => cmp[a][c] = 0

Rearrangements(s) ==
    IF s = << >> THEN {<< >>}
    ELSE {[k \in 1 .. Len(s) |-> s[p[k]]] : p \in Permutations(1 .. Len(s))}

\* Where entry e stands in s.
PlaceIn(s, e) == CHOOSE k \in 1 .. Len(s) : s[k] = e

\* Array.prototype.sort: with a consistent comparison function the one
\* stable ascending arrangement; with an inconsistent one the order is
\* implementation-defined, any arrangement of the same entries.
ArraySort(s, cmp) ==
    IF ConsistentCompare(s, cmp)
    THEN {q \in Rearrangements(s) :
            \A a, b \in 1 .. Len(q) :
                LET pa == PlaceIn(s, q[a])
                    pb == PlaceIn(s, q[b])
                IN  a < b => \/ cmp[pa][pb] < 0
                             \/ (cmp[pa][pb] = 0 /\ pa < pb)}
    ELSE Rearrangements(s)

\* Phase 1: (a, b) => (b.item.y || 0) - (a.item.y || 0)
compareY(a, b) == b.item.y - a.item.y

\* Phase 2: a new line starts where y moves by more than half the font
\* size of the previous entry (12 when that is not positive).
RECURSIVE clusterLines(_, _, _)
clusterLines(tagged, k, lines) ==
    IF k > Len(tagged) THEN lines
    ELSE LET currentLine == lines[Len(lines)]
             prev == currentLine[Len(currentLine)]
             yDelta == Abs(tagged[k].item.y - prev.item.y)
             size == IF prev.item.fontSize > 0 THEN prev.item.fontSize ELSE 12
         IN  IF 2 * yDelta > size
             THEN clusterLines(tagged, k + 1, Append(lines, << tagged[k] >>))
             ELSE clusterLines(tagged, k + 1,
                               [lines EXCEPT ![Len(lines)] = Append(@, tagged[k])])

\* The leftmost x of text object id on the line.
objMinX(line, id) ==
    CHOOSE m \in {line[k].item.x : k \in {j \in 1 .. Len(line) : line[j].item.textObjectId = id}} :
        \A k \in 1 .. Len(line) : line[k].item.textObjectId = id => m <= line[k].item.x

\* Phase 3, the comparison function of line.sort
compareOnLine(line, a, b) ==
    LET objA == a.item.textObjectId
        objB == b.item.textObjectId
        minXA == objMinX(line, objA)
        minXB == objMinX(line, objB)
    IN  IF objA # objB /\ 10 * Abs(minXA - minXB) > 1 THEN minXA - minXB
        ELSE IF objA = objB THEN a.i - b.i
        ELSE a.item.x - b.item.x

sortLine(line) ==
    ArraySort(line, [a \in 1 .. Len(line) |->
                        [b \in 1 .. Len(line) |-> compareOnLine(line, line[a], line[b])]])

\* every way of sorting each line of ls
RECURSIVE sortLines(_)
sortLines(ls) ==
    IF ls = << >> THEN {<< >>}
    ELSE {<< l >> \o rest : l \in sortLine(Head(ls)), rest \in sortLines(Tail(ls))}

RECURSIVE Flat(_)
Flat(ls) == IF ls = << >> THEN << >> ELSE Head(ls) \o Flat(Tail(ls))

\* sortTextItems: the lines it may end with (lines.flat() is its result)
sortTextItems(its) ==
    IF Len(its) = 0 THEN {<< >>}
    ELSE UNION {sortLines(clusterLines(t, 2, << << t[1] >> >>)) :
                    t \in ArraySort(Tagged(its),
                                    [a \in 1 .. Len(its) |->
                                        [b \in 1 .. Len(its) |->
                                            compareY(Tagged(its)[a], Tagged(its)[b])]])}

SortInit ==
    /\ sortIn \in SeqsUpTo(SortItems, MaxSortItems)
    /\ sortedLines = << >>
    /\ sortOut = None

SortIdle ==
    /\ sortIn = << >>
    /\ sortedLines = << >>
    /\ sortOut = None

\* one call of sortTextItems(items)
SortTextItems ==
    /\ sortOut = None
    /\ \E ls \in sortTextItems(sortIn) :
          /\ sortedLines' = ls
          /\ sortOut' = Some([k \in 1 .. Len(Flat(ls)) |-> Flat(ls)[k].item])
    /\ UNCHANGED sortIn
    /\ UNCHANGED << pageVars, parseVars, resolveVars, contentVars, loadVars, treeVars, lateVars >>

SortNext == SortTextItems

\* ========================================================================
\* PART 7: the page tree (parser.ts getPages, collectPages)
\* ========================================================================
\* getPages() resolves the catalog's /Pages and hands the node to
\* collectPages with an empty array; collectPages calls itself on every
\* resolved kid. resolve() has returned, and taken its increment of
\* resolveDepth back, before the nested collectPages call is made, and
\* getObject hands back the cached dictionary of a node met again: nothing
\* in the walk remembers the nodes it is in.

\* Objects of the page tree; object 1 is what /Pages refers to.
MaxTreeNodes == 2
\* Longest /Kids array.
MaxKids == 2

TreeNodes == 1 .. MaxTreeNodes

\* /Kids of a dictionary: absent, or an array of references to objects.
KidsChoices == {None} \cup { Some(l) : l \in SeqsUpTo(TreeNodes, MaxKids) }

\* What a reference resolves to: something that is neither a dictionary nor
\* a stream, or a dictionary with /Type /Pages, /Type /Page or no /Type.
NotADict == [isDict |-> FALSE, type |-> "none", kids |-> None]
NodeDescs ==
    [isDict : {TRUE}, type : {"Pages", "Page", "none"}, kids : KidsChoices]
        \cup {NotADict}

PageTrees == [TreeNodes -> NodeDescs]

\* collectPages 513 and 527-529: the node is walked through its /Kids.
hasKids(d) ==
    d.isDict /\ (d.type = "Pages" \/ d.type = "none") /\ d.kids # None

\* collectPages 524-525 and 537-540: the dictionary is pushed as a page.
isLeaf(d) ==
    d.isDict /\ (d.type = "Page" \/ (d.type = "none" /\ d.kids = None))

Activation(n) == [node |-> n, idx |-> 0]

TreeInit ==
    /\ tree \in PageTrees
    /\ walk = << >>
    /\ pageDicts = << >>
    /\ tpc = "init"
    /\ walkResult = "none"

TreeIdle ==
    /\ tree = [n \in TreeNodes |-> NotADict]
    /\ walk = << >>
    /\ pageDicts = << >>
    /\ tpc = "idle"
    /\ walkResult = "none"

\* getPages 234-236: pages = [], collectPages(resolve(pagesRef), pages)
GetPagesCall ==
    /\ tpc = "init"
    /\ walk' = << Activation(1) >>
    /\ pageDicts' = << >>
    /\ tpc' = "walking"
    /\ UNCHANGED << tree, walkResult >>
    /\ UNCHANGED << pageVars, parseVars, resolveVars, contentVars, loadVars, sortVars, lateVars >>

\* collectPages 524-525, 537-540: a leaf is pushed, the activation returns
CollectLeaf ==
    /\ tpc = "walking"
    /\ walk # << >>
    /\ isLeaf(tree[walk[Len(walk)].node])
    /\ pageDicts' = Append(pageDicts, walk[Len(walk)].node)
    /\ walk' = SubSeq(walk, 1, Len(walk) - 1)
    /\ UNCHANGED << tree, tpc, walkResult >>
    /\ UNCHANGED << pageVars, parseVars, resolveVars, contentVars, loadVars, sortVars, lateVars >>

\* collectPages 517-521, 531-535: the next kid is resolved and collectPages
\* called on it; with the engine's stack full the call raises RangeError,
\* which neither collectPages, getPages nor fromBuffer catches.
CollectKid ==
    /\ tpc = "walking"
    /\ walk # << >>
    /\ LET top == Len(walk)
           fr == walk[top]
           d == tree[fr.node]
       IN  /\ hasKids(d)
           /\ fr.idx < Len(d.kids[1])
           /\ IF top >= StackLimit
              THEN /\ walk' = << >>
                   /\ tpc' = "done"
                   /\ walkResult' = "RangeError"
              ELSE /\ walk' = Append([walk EXCEPT ![top].idx = fr.idx + 1],
                                     Activation(d.kids[1][fr.idx + 1]))
                   /\ UNCHANGED << tpc, walkResult >>
    /\ UNCHANGED << tree, pageDicts >>
    /\ UNCHANGED << pageVars, parseVars, resolveVars, contentVars, loadVars, sortVars, lateVars >>

\* collectPages 509, and the end of the loops over the kids: the activation
\* returns without pushing anything
CollectReturn ==
    /\ tpc = "walking"
    /\ walk # << >>
    /\ LET fr == walk[Len(walk)]
           d == tree[fr.node]
       IN  /\ ~isLeaf(d)
           /\ hasKids(d) => fr.idx >= Len(d.kids[1])
    /\ walk' = SubSeq(walk, 1, Len(walk) - 1)
    /\ UNCHANGED << tree, pageDicts, tpc, walkResult >>
    /\ UNCHANGED << pageVars, parseVars, resolveVars, contentVars, loadVars, sortVars, lateVars >>

\* getPages 237: return pages
GetPagesReturn ==
    /\ tpc = "walking"
    /\ walk = << >>
    /\ tpc' = "done"
    /\ walkResult' = "pages"
    /\ UNCHANGED << tree, walk, pageDicts >>
    /\ UNCHANGED << pageVars, parseVars, resolveVars, contentVars, loadVars, sortVars, lateVars >>

TreeNext ==
    \/ GetPagesCall
    \/ CollectLeaf
    \/ CollectKid
    \/ CollectReturn
    \/ GetPagesReturn

\* ========================================================================
\* PART 8.  An encrypted document with an object stream (parser.ts parse()
\*          133-151, getObject, getCompressedObject, decryptParsedObject)
\* ========================================================================

\* Objects of the file besides the object stream, which is the last one.
MaxEncObjs == 3
EncObjs == 1 .. MaxEncObjs
ObjStm == MaxEncObjs + 1

\* The file: for every object whether its xref entry is of type 1 (an offset)
\* or of type 2 (an index in the object stream), and what the trailer's
\* /Encrypt and /ID are: a reference to an object, or (0) for /ID a direct
\* array. The strings and stream payloads of the file are stored encrypted.
EncFiles ==
    [kind : [EncObjs -> {"plain", "compressed"}], encryptRef : EncObjs,
     idRef : {0} \cup EncObjs]

\* What getObject hands back and caches:
\*   "stored"         an object of its own as parseObjectAt read it
\*   "decrypted"      the same after decryptParsedObject
\*   "fromStored"     parseValue over the payload of the object stream as
\*                    it is stored
\*   "fromDecrypted"  parseValue over its decrypted payload
\* The parser's fields this part is about, as one record.
ParserOf(cache, calls, out, key) ==
    [cache |-> cache, calls |-> calls, out |-> out, key |-> key]

\* getObject 198-205, else branch: parseObjectAt, then decryptParsedObject
\* when encryptionInfo is set; line 208: the cache entry.
getObjectAtOffset(s, n) ==
    IF s.cache[n] # None THEN s
    ELSE [s EXCEPT !.cache[n] = Some(IF s.key THEN "decrypted" ELSE "stored"),
                   !.calls[n] = IF s.key THEN @ + 1 ELSE @]

\* getCompressedObject: getObject(streamObjNum), decodeStreamData over the
\* data of what came back, parseValue at the entry's offset. `out` keeps,
\* for every object parsed out, how often the payload had been decrypted.
getCompressedObject(s, n) ==
    LET s1 == getObjectAtOffset(s, ObjStm)
        v == IF s1.cache[ObjStm][1] = "decrypted" THEN "fromDecrypted" ELSE "fromStored"
    IN  [s1 EXCEPT !.cache[n] = Some(v),
                   !.out = Append(@, [num |-> n, payloadDecrypts |-> s1.calls[ObjStm]])]

\* getObject 189-210
getObject(f, s, n) ==
    IF s.cache[n] # None THEN s
    ELSE IF n # ObjStm /\ f.kind[n] = "compressed" THEN getCompressedObject(s, n)
    ELSE getObjectAtOffset(s, n)

\* What parseValue yields over ciphertext is not the dictionary or the
\* array of strings the file holds there.
readable(v) == v # "fromStored"

EncInit ==
    /\ encFile \in EncFiles
    /\ encCache = [n \in 1 .. ObjStm |-> None]
    /\ decryptCalls = [n \in 1 .. ObjStm |-> 0]
    /\ parsedOut = << >>
    /\ keyDerived = FALSE
    /\ epc = "encrypt"

EncIdle ==
    /\ encFile = [kind |-> << >>, encryptRef |-> 1, idRef |-> 0]
    /\ encCache = << >>
    /\ decryptCalls = << >>
    /\ parsedOut = << >>
    /\ keyDerived = FALSE
    /\ epc = "idle"

SetParser(s) ==
    /\ encCache' = s.cache
    /\ decryptCalls' = s.calls
    /\ parsedOut' = s.out

\* parse() 135-138: resolveDict(encryptRef), encryptionInfo being null
ResolveEncryptDict ==
    /\ epc = "encrypt"
    /\ LET s == getObject(encFile, ParserOf(encCache, decryptCalls, parsedOut, keyDerived),
                          encFile.encryptRef)
       IN  /\ SetParser(s)
           /\ epc' = IF readable(s.cache[encFile.encryptRef][1]) THEN "id" ELSE "unsupported"
    /\ UNCHANGED << encFile, keyDerived >>
    /\ UNCHANGED exceptEncVars

\* parse() 140-145: resolveArray(idRef) and its first item
ResolveId ==
    /\ epc = "id"
    /\ IF encFile.idRef = 0
       THEN /\ epc' = "key"
            /\ UNCHANGED << encCache, decryptCalls, parsedOut >>
       ELSE LET s == getObject(encFile,
                               ParserOf(encCache, decryptCalls, parsedOut, keyDerived),
                               encFile.idRef)
            IN  /\ SetParser(s)
                /\ epc' = IF readable(s.cache[encFile.idRef][1]) THEN "key" ELSE "unsupported"
    /\ UNCHANGED << encFile, keyDerived >>
    /\ UNCHANGED exceptEncVars

\* parse() 147-151: tryEmptyPassword; the key opens the file or it does not
TryEmptyPassword ==
    /\ epc = "key"
    /\ \E opens \in BOOLEAN :
          /\ keyDerived' = opens
          /\ epc' = IF opens THEN "open" ELSE "unsupported"
    /\ UNCHANGED << encFile, encCache, decryptCalls, parsedOut >>
    /\ UNCHANGED exceptEncVars

\* Any later resolution of object n (getPages, the pages' contents, fonts)
ResolveObject(n) ==
    /\ epc = "open"
    /\ SetParser(getObject(encFile, ParserOf(encCache, decryptCalls, parsedOut, keyDerived), n))
    /\ UNCHANGED << encFile, keyDerived, epc >>
    /\ UNCHANGED exceptEncVars

EncNext ==
    \/ ResolveEncryptDict
    \/ ResolveId
    \/ TryEmptyPassword
    \/ \E n \in 1 .. ObjStm : ResolveObject(n)

\* ========================================================================
\* PART 9.  The payload of a stream (parser.ts parseObjectAt 331-363)
\* ========================================================================

CR == 13
LF == 10
\* 'endstream'
ENDSTREAM_MARKER == << 101, 110, 100, 115, 116, 114, 101, 97, 109 >>

\* Longest run of bytes between the stream keyword and the marker.
MaxPayload == 3

\* Offsets are counted from 0, as in the code: data[k + 1] is the byte at
\* offset k.
ByteAt(data, k) == IF k >= 0 /\ k < Len(data) THEN data[k + 1] ELSE -1

\* lexer.slice: subarray clamps its ends to the buffer
slice(data, start, end) ==
    LET e == IF end > Len(data) THEN Len(data) ELSE end
    IN  IF start >= e THEN << >> ELSE SubSeq(data, start + 1, e)

\* lexer.findNext(needle, from)
findNext(data, needle, from) ==
    LET hits == { i \in from .. (Len(data) - Len(needle)) :
                    \A j \in 0 .. (Len(needle) - 1) : ByteAt(data, i + j) = needle[j + 1] }
    IN  IF hits = {} THEN -1
        ELSE CHOOSE i \in hits : \A h \in hits : i <= h

\* parseObjectAt 332-339: the single line ending after "stream"
skipLineEnding(data) ==
    IF ByteAt(data, 0) = CR THEN (IF ByteAt(data, 1) = LF THEN 2 ELSE 1)
    ELSE IF ByteAt(data, 0) = LF THEN 1
    ELSE 0

\* parseObjectAt 353-359: the loop that moves dataEnd back
RECURSIVE trimDataEnd(_, _, _)
trimDataEnd(data, streamStart, dataEnd) ==
    IF dataEnd > streamStart /\ ByteAt(data, dataEnd - 1) \in {LF, CR}
    THEN trimDataEnd(data, streamStart, dataEnd - 1)
    ELSE dataEnd

\* parseObjectAt 341-363 for the bytes after the stream keyword and the
\* value of resolveLength: the data of the stream, or None when the bare
\* dictionary is returned.
streamDataOf(data, length) ==
    LET streamStart == skipLineEnding(data)
        endPos == findNext(data, ENDSTREAM_MARKER, streamStart)
    IN  IF length >= 0 THEN Some(slice(data, streamStart, streamStart + length))
        ELSE IF endPos # -1
        THEN Some(slice(data, streamStart, trimDataEnd(data, streamStart, endPos)))
        ELSE None

\* The bytes after the keyword: a run of line ends and other bytes, then
\* the marker or the end of the buffer.
StmBuffers ==
    { run \o tail : run \in SeqsUpTo({CR, LF, 65}, MaxPayload),
                    tail \in {ENDSTREAM_MARKER, << >>} }

\* resolveLength: -1 for an absent or unresolvable /Length, or its number
StmLengths == {-1, 0, 2}

StmInit ==
    /\ stmBytes \in StmBuffers
    /\ stmLength \in StmLengths
    /\ stmData = None
    /\ stmDone = FALSE

StmIdle ==
    /\ stmBytes = << >>
    /\ stmLength = 0
    /\ stmData = None
    /\ stmDone = TRUE

\* parseObjectAt on an object whose dictionary is followed by "stream"
ParseObjectAt ==
    /\ ~stmDone
    /\ stmData' = streamDataOf(stmBytes, stmLength)
    /\ stmDone' = TRUE
    /\ UNCHANGED << stmBytes, stmLength >>
    /\ UNCHANGED exceptStmVars

StmNext == ParseObjectAt

\* ========================================================================
\* PART 10.  Pages that exercise the whole text state: render mode, scaling,
\*           rise, matrices, q/Q, and the includeInvisibleText option
\*           (page.ts textItems, interpreter.ts extractTextItems)
\* ========================================================================

\* Statements a text page is put together from, after BT /F1 1 Tf.
MaxTextOps == 3

\* `3 Tr (I) Tj 0 Tr`: one run shown invisibly
InvisibleShow == << Num(3), Word("Tr") >> \o Show(<< 73 >>) \o << Num(0), Word("Tr") >>

\* Every variable of the state is given another value; the render mode
\* becomes 3.
ChangeAll ==
    SetFont("F2", 2)
    \o << Num(1), Word("Tc"), Num(1), Word("Tw"), Num(200), Word("Tz"),
          Num(1), Word("TL"), Num(1), Word("Ts"), Num(3), Word("Tr") >>
    \o << Num(2), Num(0), Num(0), Num(2), Num(3), Num(4), Word("Tm") >>
    \o << Num(1), Num(0), Num(0), Num(1), Num(5), Num(6), Word("cm") >>

TextStatements ==
    { InvisibleShow,
      Show(<< 65 >>),
      << Arr(<< 66 >>, 1000), Word("TJ") >>,
      << Str(<< 67 >>), Word("'") >>,
      << Word("q") >>,
      << Word("Q") >>,
      ChangeAll,
      Invoke("X") }

RECURSIVE Joined(_)
Joined(ss) == IF ss = << >> THEN << >> ELSE Head(ss) \o Joined(Tail(ss))

TextPages ==
    { << BeginText \o SetFont("F1", 1) \o Joined(ss) >> :
        ss \in SeqsUpTo(TextStatements, MaxTextOps) }

\* The form /X shows one run invisibly and one visibly.
TextForms ==
    [NoForms EXCEPT !["X"] = Form(BeginText \o SetFont("F1", 1) \o InvisibleShow
                                      \o Show(<< 68 >>) \o EndText, 0, 7)]

\* PDFPage.textItems: extractTextItems(pageDict, parser, { includeInvisibleText })
TextInit ==
    /\ includeInvisibleText \in BOOLEAN
    /\ contentStreams \in TextPages
    /\ xobjects = TextForms
    /\ frames = << >>
    /\ pageItems = << >>
    /\ streamIdx = 0
    /\ cpc = "ready"
    /\ origin = << >>
    /\ btSerial = 0
    /\ capHits = 0

\* The option's default.
TextIdle == includeInvisibleText = FALSE

\* ========================================================================
\* PART 11.  The records of a cross-reference stream
\*           (parseXRefStream, readFieldValue)
\* ========================================================================

\* The widest field of /W the model decodes.
MaxFieldWidth == 5

\* A 32-bit integer of the engine is held as its four bytes, most
\* significant first, so that `<<` loses what it loses there.
Int32Zero == << 0, 0, 0, 0 >>

\* `(value << 8) | byte`: the top byte is shifted out, the low byte, zero
\* after the shift, takes the bits of byte
shiftInByte(word, byte) == << word[2], word[3], word[4], byte >>

\* The number a 32-bit word stands for, two's complement.
Int32Value(word) ==
    (IF word[1] >= 128 THEN word[1] - 256 ELSE word[1]) * 16777216
    + word[2] * 65536 + word[3] * 256 + word[4]

\* `data[offset + i] ?? 0`, offset counted from 0
byteOrZero(data, k) == IF k + 1 \in 1 .. Len(data) THEN data[k + 1] ELSE 0

RECURSIVE readFieldLoop(_, _, _, _, _)
readFieldLoop(data, offset, width, i, value) ==
    IF i >= width THEN value
    ELSE readFieldLoop(data, offset, width, i + 1,
                       shiftInByte(value, byteOrZero(data, offset + i)))

readFieldValue(data, offset, width) ==
    Int32Value(readFieldLoop(data, offset, width, 0, Int32Zero))

\* /W arrays: a type byte, an offset of 1 .. MaxFieldWidth bytes and a
\* generation byte, or the offset alone.
WArrays ==
    { << 1, n, 1 >> : n \in 1 .. MaxFieldWidth } \cup { << 0, n, 0 >> : n \in 1 .. MaxFieldWidth }

TypeBytes == {0, 1, 2}
OffsetBytes == {0, 1, 128, 255}

\* The decoded records there are for a /W array.
RecordsOf(w) ==
    { t \o o \o g : t \in [1 .. w[1] -> TypeBytes], o \in [1 .. w[2] -> OffsetBytes],
                    g \in [1 .. w[3] -> TypeBytes] }

XsInit ==
    /\ xsW \in WArrays
    /\ xsData \in RecordsOf(xsW)
    /\ xsFields = << >>
    /\ xsEntry = None
    /\ xspc = "record"

XsIdle ==
    /\ xsW = << 0, 0, 0 >>
    /\ xsData = << >>
    /\ xsFields = << >>
    /\ xsEntry = None
    /\ xspc = "idle"

\* the loop body of parseXRefStream up to the switch: the three fields of
\* the record at dataPos = 0
ReadRecord ==
    /\ xspc = "record"
    /\ xsW[1] + xsW[2] + xsW[3] <= Len(xsData)
    /\ xsFields' = << readFieldValue(xsData, 0, xsW[1]),
                      readFieldValue(xsData, xsW[1], xsW[2]),
                      readFieldValue(xsData, xsW[1] + xsW[2], xsW[3]) >>
    /\ xspc' = "switch"
    /\ UNCHANGED << xsW, xsData, xsEntry >>
    /\ UNCHANGED exceptXsVars

\* the switch on the type, 1 when w[0] is 0
StoreRecord ==
    /\ xspc = "switch"
    /\ LET type == IF xsW[1] = 0 THEN 1 ELSE xsFields[1]
       IN  xsEntry' =
             CASE type = 0 -> Some([offset |-> 0, gen |-> xsFields[3], free |-> TRUE,
                                    streamObjNum |-> -1, streamIndex |-> -1])
               [] type = 1 -> Some([offset |-> xsFields[2], gen |-> xsFields[3], free |-> FALSE,
                                    streamObjNum |-> -1, streamIndex |-> -1])
               [] type = 2 -> Some([offset |-> 0, gen |-> 0, free |-> FALSE,
                                    streamObjNum |-> xsFields[2], streamIndex |-> xsFields[3]])
               [] OTHER -> None
    /\ xspc' = "done"
    /\ UNCHANGED << xsW, xsData, xsFields >>
    /\ UNCHANGED exceptXsVars

XsNext == ReadRecord \/ StoreRecord

\* ========================================================================
\* PART 12.  The lexer on raw bytes (PdfLexer.nextToken and the readers it
\*           calls); positions count from 0 as in the code
\* ========================================================================

\* The longest buffer of arbitrary bytes.
MaxLexLen == 3

WHITESPACE == {0, 9, 10, 13, 12, 32}
DELIMITERS == {40, 41, 60, 62, 91, 93, 123, 125, 47, 37}

isWhitespace(b) == b \in WHITESPACE
isDelimiter(b) == b \in DELIMITERS
isDigit(b) == b >= 48 /\ b <= 57
isOctalDigit(b) == b >= 48 /\ b <= 55
isHexDigit(b) == (b >= 48 /\ b <= 57) \/ (b >= 65 /\ b <= 70) \/ (b >= 97 /\ b <= 102)

\* this.data[p]
DataAt(d, p) == d[p + 1]

\* the inner loop of a comment: up to and over the next LF or CR
RECURSIVE skipComment(_, _)
skipComment(d, p) ==
    IF p >= Len(d) THEN p
    ELSE IF DataAt(d, p) \in {10, 13} THEN p + 1
    ELSE skipComment(d, p + 1)

RECURSIVE skipWhitespaceAndComments(_, _)
skipWhitespaceAndComments(d, p) ==
    IF p >= Len(d) THEN p
    ELSE IF isWhitespace(DataAt(d, p)) THEN skipWhitespaceAndComments(d, p + 1)
    ELSE IF DataAt(d, p) = 37 THEN skipWhitespaceAndComments(d, skipComment(d, p + 1))
    ELSE p

LexToken(type, p) == [type |-> type, pos |-> p]

RECURSIVE hexLoop(_, _)
hexLoop(d, p) ==
    IF p >= Len(d) THEN p
    ELSE IF DataAt(d, p) = 62 THEN p + 1
    ELSE hexLoop(d, p + 1)

readHexString(d, p) == LexToken("HexString", hexLoop(d, p + 1))

RECURSIVE literalLoop(_, _, _)
literalLoop(d, p, depth) ==
    IF p >= Len(d) \/ depth <= 0 THEN p
    ELSE LET c == DataAt(d, p)
             q == p + 1
         IN  IF c = 40 THEN literalLoop(d, q, depth + 1)
             ELSE IF c = 41 THEN literalLoop(d, q, depth - 1)
             ELSE IF c # 92 THEN literalLoop(d, q, depth)
             ELSE IF q >= Len(d) THEN q
             ELSE LET esc == DataAt(d, q)
                      r == q + 1
                      r1 == IF r < Len(d) /\ isOctalDigit(DataAt(d, r)) THEN r + 1 ELSE r
                      r2 == IF r1 > r /\ r1 < Len(d) /\ isOctalDigit(DataAt(d, r1))
                            THEN r1 + 1 ELSE r1
                  IN  IF esc = 13
                      THEN literalLoop(d, IF r < Len(d) /\ DataAt(d, r) = 10 THEN r + 1 ELSE r,
                                       depth)
                      ELSE IF isOctalDigit(esc) THEN literalLoop(d, r2, depth)
                      ELSE literalLoop(d, r, depth)

readLiteralString(d, p) == LexToken("String", literalLoop(d, p + 1, 1))

RECURSIVE nameLoop(_, _)
nameLoop(d, p) ==
    IF p >= Len(d) THEN p
    ELSE IF isWhitespace(DataAt(d, p)) \/ isDelimiter(DataAt(d, p)) THEN p
    ELSE IF /\ DataAt(d, p) = 35
            /\ p + 2 < Len(d)
            /\ isHexDigit(DataAt(d, p + 1))
            /\ isHexDigit(DataAt(d, p + 2))
         THEN nameLoop(d, p + 3)
    ELSE nameLoop(d, p + 1)

readName(d, p) == LexToken("Name", nameLoop(d, p + 1))

RECURSIVE wordLoop(_, _)
wordLoop(d, p) ==
    IF p >= Len(d) THEN p
    ELSE IF isWhitespace(DataAt(d, p)) \/ isDelimiter(DataAt(d, p)) THEN p
    ELSE wordLoop(d, p + 1)

\* The bytes of true, false and null.
WordTrue == << 116, 114, 117, 101 >>
WordFalse == << 102, 97, 108, 115, 101 >>
WordNull == << 110, 117, 108, 108 >>

\* readKeyword reads on from the cursor, wherever its caller left it.
readKeyword(d, p) ==
    LET e == wordLoop(d, p)
        word == SubSeq(d, p + 1, e)
    IN  IF word = WordTrue \/ word = WordFalse THEN LexToken("Bool", e)
        ELSE IF word = WordNull THEN LexToken("Null", e)
        ELSE LexToken("Keyword", e)

\* the loop of readNumber: the cursor it stops at and the digits it took
RECURSIVE numberLoop(_, _, _, _)
numberLoop(d, p, isReal, digits) ==
    IF p >= Len(d) THEN [pos |-> p, digits |-> digits]
    ELSE IF isDigit(DataAt(d, p)) THEN numberLoop(d, p + 1, isReal, digits + 1)
    ELSE IF DataAt(d, p) = 46 /\ ~isReal THEN numberLoop(d, p + 1, TRUE, digits)
    ELSE [pos |-> p, digits |-> digits]

\* parseInt and parseFloat give NaN exactly when numStr holds no digit
readNumber(d, p) ==
    LET signed == DataAt(d, p) = 45 \/ DataAt(d, p) = 43
        n == numberLoop(d, IF signed THEN p + 1 ELSE p, FALSE, 0)
    IN  IF n.digits = 0 THEN readKeyword(d, n.pos) ELSE LexToken("Number", n.pos)

\* One activation of nextToken up to its return or its call of itself:
\* the token it returns, or type "again" with the cursor for the nested
\* call.
nextTokenBody(d, p0) ==
    LET p == skipWhitespaceAndComments(d, p0)
        b == DataAt(d, p)
        pair == p + 1 < Len(d) /\ DataAt(d, p + 1) = b
    IN  IF p >= Len(d) THEN LexToken("EOF", p)
        ELSE IF b = 60 /\ pair THEN LexToken("DictStart", p + 2)
        ELSE IF b = 62 /\ pair THEN LexToken("DictEnd", p + 2)
        ELSE IF b = 60 THEN readHexString(d, p)
        ELSE IF b = 40 THEN readLiteralString(d, p)
        ELSE IF b = 91 THEN LexToken("ArrayStart", p + 1)
        ELSE IF b = 93 THEN LexToken("ArrayEnd", p + 1)
        ELSE IF b = 47 THEN readName(d, p)
        ELSE IF isDigit(b) \/ b = 45 \/ b = 43 \/ b = 46 THEN readNumber(d, p)
        ELSE IF b >= 65 /\ b <= 122 THEN readKeyword(d, p)
        ELSE LexToken("again", p + 1)

\* Bytes of every kind the lexer tells apart: blank, line end, %, < > ( )
\* [ ] /, a digit, a sign, a point, a letter, \, #, and two bytes that
\* start no token.
LexBytes == {32, 10, 37, 60, 62, 40, 41, 91, 93, 47, 49, 45, 46, 97, 92, 35, 123, 255}

\* A buffer of binary data: as many bytes that start no token as the call
\* stack has room for.
BinaryRun == [i \in 1 .. StackLimit |-> 255]

LexBuffers == SeqsUpTo(LexBytes, MaxLexLen) \cup {BinaryRun}

LexInit ==
    /\ lexData \in LexBuffers
    /\ lexPos \in 0 .. Len(lexData)
    /\ lexPos > MaxLexLen => lexPos = Len(lexData)
    /\ lexStart = lexPos
    /\ lexDepth = 0
    /\ lexTok = "none"
    /\ lexTokens = 0
    /\ lexEofs = 0
    /\ lexpc = "ready"

LexIdle ==
    /\ lexData = << >>
    /\ lexPos = 0
    /\ lexStart = 0
    /\ lexDepth = 0
    /\ lexTok = "none"
    /\ lexTokens = 0
    /\ lexEofs = 0
    /\ lexpc = "idle"

\* An activation of nextToken at the given depth of the call stack runs:
\* it returns a token through all the activations below it, or calls
\* itself once more, which fails when the stack is full.
Activate(depth) ==
    LET t == nextTokenBody(lexData, lexPos)
    IN  /\ lexPos' = t.pos
        /\ IF t.type # "again"
           THEN /\ lexTok' = t.type
                /\ lexDepth' = 0
                /\ lexpc' = "ready"
                /\ lexTokens' = IF t.type = "EOF" THEN lexTokens ELSE lexTokens + 1
                /\ lexEofs' = IF t.type = "EOF" THEN lexEofs + 1 ELSE lexEofs
           ELSE /\ lexDepth' = depth
                /\ lexpc' = IF depth >= StackLimit THEN "thrown" ELSE "inside"
                /\ UNCHANGED << lexTok, lexTokens, lexEofs >>
        /\ UNCHANGED lexData

\* a caller calls nextToken(); after EOF it may call once more
NextToken ==
    /\ lexpc = "ready"
    /\ lexEofs < 2
    /\ lexStart' = lexPos
    /\ Activate(1)
    /\ UNCHANGED exceptLexVars

\* `this.pos++; return this.nextToken()`: the nested activation
NextTokenAgain ==
    /\ lexpc = "inside"
    /\ Activate(lexDepth + 1)
    /\ UNCHANGED lexStart
    /\ UNCHANGED exceptLexVars

LexNext == NextToken \/ NextTokenAgain

\* ========================================================================
\* PART 13.  Markdown of a document (markdown-entry.ts pageToMarkdown,
\*           docToMarkdown; content/links.ts extractLinks)
\* ========================================================================

\* The pages of the longest document.
MaxMdPages == 3

\* What a page holds:
\*   live     FALSE once the page is disposed (no pageDict, no parser)
\*   content  "text": the content stream yields a run; "none": it yields
\*            nothing; "fails": extractTextItems throws on it
\*   annots   "none": no /Annots; "link": one Link annotation with a URI
\*            over the run; "other": an annotation that is no link;
\*            "corrupt": the annotation is stored in an object stream whose
\*            FlateDecode data does not inflate, so resolving it throws
MdPageDescs ==
    [live : BOOLEAN, content : {"text", "none", "fails"},
     annots : {"none", "link", "other", "corrupt"}]

MdDocs == UNION { [1 .. n -> MdPageDescs] : n \in 0 .. MaxMdPages }

\* The words of the pages, and the default separator of docToMarkdown.
MdWords == << "one", "two", "three", "four" >>
MdLinked == << "[one](uri)", "[two](uri)", "[three](uri)", "[four](uri)" >>
mdSeparator == << "\n\n" >>

\* extractLinks: the links of the page, or a throw out of parser.resolveDict
extractLinks(pg) ==
    IF pg.annots = "none" THEN [threw |-> FALSE, links |-> 0]
    ELSE IF pg.annots = "corrupt" THEN [threw |-> TRUE, links |-> 0]
    ELSE IF pg.annots = "link" THEN [threw |-> FALSE, links |-> 1]
    ELSE [threw |-> FALSE, links |-> 0]

\* page.textItems: the try/catch of the getter turns a throw into no items
mdTextItems(pg) == IF pg.content = "text" THEN 1 ELSE 0

\* toMarkdown(assembleStructuredItems(items, links)): '' for no items, the
\* run otherwise, as a link where a link lies over it
mdOfItems(i, items, links) ==
    IF items = 0 THEN << >>
    ELSE IF links > 0 THEN << MdLinked[i] >>
    ELSE << MdWords[i] >>

\* pageToMarkdown(page) for page i of the document
pageToMarkdown(i, pg) ==
    IF ~pg.live THEN [threw |-> FALSE, md |-> << >>]
    ELSE LET l == extractLinks(pg)
         IN  IF l.threw THEN [threw |-> TRUE, md |-> << >>]
             ELSE [threw |-> FALSE, md |-> mdOfItems(i, mdTextItems(pg), l.links)]

MdInit ==
    /\ mdDoc \in MdDocs
    /\ mdIdx = 0
    /\ mdParts = << >>
    /\ mdResult = None
    /\ mdpc = "loop"

MdIdle ==
    /\ mdDoc = << >>
    /\ mdIdx = 0
    /\ mdParts = << >>
    /\ mdResult = None
    /\ mdpc = "idle"

\* one round of `for (const page of doc.pages)`: a throw of pageToMarkdown
\* leaves docToMarkdown
DocToMarkdownPage ==
    /\ mdpc = "loop"
    /\ mdIdx < Len(mdDoc)
    /\ LET r == pageToMarkdown(mdIdx + 1, mdDoc[mdIdx + 1])
       IN  IF r.threw
           THEN /\ mdpc' = "thrown"
                /\ UNCHANGED << mdIdx, mdParts >>
           ELSE /\ mdIdx' = mdIdx + 1
                /\ mdParts' = IF Len(r.md) > 0 THEN Append(mdParts, r.md) ELSE mdParts
                /\ UNCHANGED mdpc
    /\ UNCHANGED << mdDoc, mdResult >>
    /\ UNCHANGED exceptMdVars

\* `return parts.join(separator)`
DocToMarkdownReturn ==
    /\ mdpc = "loop"
    /\ mdIdx = Len(mdDoc)
    /\ mdResult' = Some(Join(mdParts, mdSeparator))
    /\ mdpc' = "done"
    /\ UNCHANGED << mdDoc, mdIdx, mdParts >>
    /\ UNCHANGED exceptMdVars

MdNext == DocToMarkdownPage \/ DocToMarkdownReturn

\* ========================================================================
\* PART 14.  The resources of a page (fonts.ts resolveResources)
\* ========================================================================

\* The dictionaries of the file that a /Parent may refer to.
MaxResObjs == 2

ResObjs == 1 .. MaxResObjs
\* An object number whose object is no dictionary.
NoDict == MaxResObjs + 1

\* A reference `num gen R`. getObject caches under the key "num:gen" and
\* looks the object up by num alone, so the two generations of a number
\* resolve to two PdfDict objects of the same content.
ResRefs == [num : ResObjs \cup {NoDict}, gen : {0, 1}]

\* What a dictionary holds: /Resources absent, a dictionary, or something
\* that resolves to none; /Parent absent (None) or a reference.
ResDictDescs ==
    [resources : {"absent", "dict", "null"}, parent : {None} \cup { Some(r) : r \in ResRefs }]

\* parser.resolveDict(ref): the PdfDict object, known by its cache key, or
\* None for null
resResolveDict(ref) == IF ref.num = NoDict THEN None ELSE Some(<< ref.num, ref.gen >>)

\* `if (visited.has(parent)) return null`
alreadyVisited_Never(seen, parent) == FALSE

alreadyVisited(seen, parent) == parent \in seen

ResInit ==
    /\ resObjs \in [ResObjs -> ResDictDescs]
    /\ resPage \in { << n, 0 >> : n \in ResObjs }
    /\ resDict = resPage
    /\ resVisited = {}
    /\ resDepth = 1
    /\ resResult = None
    /\ respc = "walk"

ResIdle ==
    /\ resObjs = << >>
    /\ resPage = << >>
    /\ resDict = << >>
    /\ resVisited = {}
    /\ resDepth = 0
    /\ resResult = None
    /\ respc = "idle"

\* The activation of resolveResources on resDict has no /Resources and a
\* /Parent that resolves to a dictionary not seen before: it calls itself
\* on the parent, which fails when the call stack is full.
WalkUp ==
    /\ respc = "walk"
    /\ LET d == resObjs[resDict[1]]
       IN  /\ d.resources = "absent"
           /\ d.parent # None
           /\ resResolveDict(d.parent[1]) # None
           /\ LET parent == resResolveDict(d.parent[1])[1]
              IN  /\ ~alreadyVisited(resVisited, parent)
                  /\ resVisited' = resVisited \cup {parent}
                  /\ resDict' = parent
                  /\ resDepth' = resDepth + 1
                  /\ respc' = IF resDepth >= StackLimit THEN "thrown" ELSE "walk"
    /\ UNCHANGED << resObjs, resPage, resResult >>
    /\ UNCHANGED exceptResVars

\* The activation returns, and with it all the activations below: the
\* resolved /Resources, or null when there is no parent to go to or the
\* parent was visited.
ReturnResources ==
    /\ respc = "walk"
    /\ LET d == resObjs[resDict[1]]
           parent == IF d.parent = None THEN None ELSE resResolveDict(d.parent[1])
       IN  \/ /\ d.resources = "dict"
              /\ resResult' = Some(<< "resources of", resDict[1] >>)
           \/ /\ d.resources = "null"
              /\ resResult' = Some(<< "null", 0 >>)
           \/ /\ d.resources = "absent"
              /\ \/ parent = None
                 \/ parent # None /\ alreadyVisited(resVisited, parent[1])
              /\ resResult' = Some(<< "null", 0 >>)
    /\ respc' = "done"
    /\ resDepth' = 0
    /\ UNCHANGED << resObjs, resPage, resDict, resVisited >>
    /\ UNCHANGED exceptResVars

ResNext == WalkUp \/ ReturnResources

\* ========================================================================
\* Specifications
\* ========================================================================
\* Each specification starts one part of the program and holds the others idle.
ExtIdle == ContentIdle /\ LoadIdle /\ SortIdle /\ TreeIdle
LateIdle == EncIdle /\ StmIdle /\ TextIdle /\ XsIdle /\ LexIdle /\ MdIdle /\ ResIdle
EarlyIdle == PageIdle /\ ParseIdle /\ ResolveIdle /\ ExtIdle

InitPage == PageInit /\ ParseIdle /\ ResolveIdle /\ ExtIdle /\ LateIdle
InitParse == ParseInit /\ PageIdle /\ ResolveIdle /\ ExtIdle /\ LateIdle
InitResolve == ResolveInit /\ PageIdle /\ ParseIdle /\ ExtIdle /\ LateIdle
InitContent ==
    ContentInit /\ PageIdle /\ ParseIdle /\ ResolveIdle /\ LoadIdle /\ SortIdle /\ TreeIdle
        /\ LateIdle
InitLoad ==
    LoadInit /\ PageIdle /\ ParseIdle /\ ResolveIdle /\ ContentIdle /\ SortIdle /\ TreeIdle
        /\ LateIdle
InitSort ==
    SortInit /\ PageIdle /\ ParseIdle /\ ResolveIdle /\ ContentIdle /\ LoadIdle /\ TreeIdle
        /\ LateIdle
InitTree ==
    TreeInit /\ PageIdle /\ ParseIdle /\ ResolveIdle /\ ContentIdle /\ LoadIdle /\ SortIdle
        /\ LateIdle
InitEnc ==
    EncInit /\ EarlyIdle
        /\ StmIdle /\ TextIdle /\ XsIdle /\ LexIdle /\ MdIdle /\ ResIdle
InitStm ==
    StmInit /\ EarlyIdle
        /\ EncIdle /\ TextIdle /\ XsIdle /\ LexIdle /\ MdIdle /\ ResIdle
InitText ==
    TextInit /\ PageIdle /\ ParseIdle /\ ResolveIdle /\ LoadIdle /\ SortIdle /\ TreeIdle
        /\ EncIdle /\ StmIdle /\ XsIdle /\ LexIdle /\ MdIdle /\ ResIdle
InitXs ==
    XsInit /\ EarlyIdle
        /\ EncIdle /\ StmIdle /\ TextIdle /\ LexIdle /\ MdIdle /\ ResIdle
InitLex ==
    LexInit /\ EarlyIdle
        /\ EncIdle /\ StmIdle /\ TextIdle /\ XsIdle /\ MdIdle /\ ResIdle
InitMd ==
    MdInit /\ EarlyIdle
        /\ EncIdle /\ StmIdle /\ TextIdle /\ XsIdle /\ LexIdle /\ ResIdle
InitRes ==
    ResInit /\ EarlyIdle
        /\ EncIdle /\ StmIdle /\ TextIdle /\ XsIdle /\ LexIdle /\ MdIdle

SpecPage == InitPage /\ [][PageNext]_vars

SpecParse == InitParse /\ [][ParseNext]_vars

SpecResolve == InitResolve /\ [][ResolveNext]_vars

SpecContent == InitContent /\ [][ContentNext]_vars

SpecLoad == InitLoad /\ [][LoadNext]_vars

SpecSort == InitSort /\ [][SortNext]_vars

SpecTree == InitTree /\ [][TreeNext]_vars

SpecEnc == InitEnc /\ [][EncNext]_vars

SpecStm == InitStm /\ [][StmNext]_vars

SpecText == InitText /\ [][ContentNext]_vars

SpecXs == InitXs /\ [][XsNext]_vars

SpecLex == InitLex /\ [][LexNext]_vars

SpecMd == InitMd /\ [][MdNext]_vars

SpecRes == InitRes /\ [][ResNext]_vars

\* resolveResources is one synchronous call: once started it runs on until
\* it returns, which is weak fairness of its steps.
SpecResLive == SpecRes /\ WF_vars(ResNext)

\* extractTextItems is one synchronous call: once started it runs on until
\* it returns, which is weak fairness of its steps.
SpecContentLive == SpecContent /\ WF_vars(ContentNext)

\* ========================================================================
\* Properties
\* ========================================================================

\* a occurs in b as a run of consecutive elements
IsInfix(a, b) ==
    \E i \in 0 .. (Len(b) - Len(a)) : SubSeq(b, i + 1, i + Len(a)) = a

\* ---- SpecPage ----

\* C1: once the document's dispose() has run, every page handle has null
\* back-pointers (page dictionary and parser), and a read of textItems
\* returns the empty array and a read of text the empty string, neither
\* throwing, whether or not the page was extracted before the disposal.
C1_DisposedPagesReadEmpty ==
    docDisposed =>
        \A p \in PageNums :
            /\ ~pages[p].pageDict
            /\ ~pages[p].parser
            /\ LET r == textItems(pages[p], pageSrc[p])
               IN  ~r.threw /\ r.val = << >>
            /\ LET t == text(pages[p], pageSrc[p])
               IN  ~t.threw /\ t.val = << >>

\* C1 witness: a disposed document of which one page had been extracted to a
\* non-empty text and another had never been extracted, both read again
\* after the disposal (the read cached the empty text).
C1_Witness ==
    /\ docDisposed
    /\ \E p, q \in PageNums :
          /\ p \in extracted
          /\ ~pageSrc[p].throws
          /\ assembleText(pageSrc[p].items) # << >>
          /\ pages[p].text = Some(<< >>)
          /\ q \notin extracted
          /\ pages[q].text = Some(<< >>)

\* C3: on a page whose extraction throws, textItems, text and error never
\* throw, textItems is the empty array and text the empty string; once the
\* extraction has run, the error is recorded and every read of page.error
\* returns it; the document text never throws and holds, as a run, the text
\* of every page that extracts and has not been disposed.
C3_ExtractionFailureContained ==
    /\ \A p \in PageNums :
          pageSrc[p].throws =>
              /\ LET r == textItems(pages[p], pageSrc[p])
                 IN  ~r.threw /\ r.val = << >>
              /\ LET t == text(pages[p], pageSrc[p])
                 IN  ~t.threw /\ t.val = << >>
              /\ ~error(pages[p], pageSrc[p]).threw
              /\ p \in extracted =>
                    /\ pages[p].error = Some("err")
                    /\ error(pages[p], pageSrc[p]).val = Some("err")
    /\ LET d == docTextGet(pages, pageSrc, docText)
       IN  /\ ~d.threw
           /\ \A q \in PageNums :
                 ~pageSrc[q].throws /\ pages[q].pageDict =>
                     IsInfix(assembleText(pageSrc[q].items), d.val)

\* C3 witness: a page whose extraction threw, with its error recorded,
\* beside a page with text, and the document text computed over both.
C3_Witness ==
    \E p, q \in PageNums :
        /\ pageSrc[p].throws
        /\ p \in extracted
        /\ pages[p].error = Some("err")
        /\ pages[p].textItems = Some(<< >>)
        /\ ~pageSrc[q].throws
        /\ assembleText(pageSrc[q].items) # << >>
        /\ docText = Some(assembleText(pageSrc[q].items))

\* ---- SpecParse ----

\* The lines of section i that name object n, and the entry the first gives.
ListsObj(f, i, n) == \E j \in 1 .. Len(f.secs[i].ents) : f.secs[i].ents[j].num = n

FirstLine(f, i, n) ==
    CHOOSE j \in 1 .. Len(f.secs[i].ents) :
        /\ f.secs[i].ents[j].num = n
        /\ \A h \in 1 .. (j - 1) : f.secs[i].ents[h].num # n

\* The entry object n must have after the walk over the sections in `seen`
\* (newest first): that of the first line for n in the first section met
\* that lists n; None when no section met lists it.
NewestEntry(f, seen, n) ==
    IF \E k \in 1 .. Len(seen) : ListsObj(f, seen[k], n)
    THEN LET k == CHOOSE k \in 1 .. Len(seen) :
                      /\ ListsObj(f, seen[k], n)
                      /\ \A h \in 1 .. (k - 1) : ~ListsObj(f, seen[h], n)
         IN  Some(XRefEntryOf(f, seen[k], FirstLine(f, seen[k], n)))
    ELSE None

\* C4: all along the normal path, and so at its successful end, the xref
\* map gives each object number the entry of the newest section walked that
\* lists it, and within that section of its first line; sections are walked
\* newest first, so an entry placed is never replaced by one of an older
\* section, and a newer free entry hides an older in-use one.
C4_NewestSectionWins ==
    ~normalFailed =>
        /\ \A n \in ObjNums : MapGet(xref, n) = NewestEntry(file, visited, n)
        /\ \A k \in 1 .. Len(xref) : xref[k].num \in ObjNums
        /\ \A k, h \in 1 .. Len(xref) : xref[k].num = xref[h].num => k = h

\* C4 witness: a normal-path parse that ended well over two sections, the
\* newer one listing as free an object the older one lists in use; the map
\* holds the free entry.
C4_Witness ==
    /\ ~normalFailed
    /\ parseResult = "ok"
    /\ Len(visited) >= 2
    /\ \E n \in ObjNums :
          /\ ListsObj(file, visited[1], n)
          /\ file.secs[visited[1]].ents[FirstLine(file, visited[1], n)].free
          /\ ListsObj(file, visited[2], n)
          /\ ~file.secs[visited[2]].ents[FirstLine(file, visited[2], n)].free
          /\ MapGet(xref, n) = Some([offset |-> 0, free |-> TRUE])

\* C5: once the normal path has failed, whatever it had merged, the xref
\* map and the trailer are exactly what the recovery scan of the file
\* produced; when the scan itself throws, nothing is left and parse() fails.
C5_FallbackReplacesEverything ==
    normalFailed =>
        LET recovery == scanForObjects(file)
        IN  IF recovery.ok
            THEN xref = recovery.table /\ trailer = recovery.trailer
            ELSE xref = EmptyMap /\ trailer = None /\ parseResult = "parse_error"

\* C5 witness: the newest section was merged, then an older /Prev target
\* failed; the entry the newest section gave an object is gone from the map,
\* which holds the entry of the scan.
C5_Witness ==
    /\ normalFailed
    /\ Len(visited) >= 1
    /\ \E n \in ObjNums :
          /\ NewestEntry(file, visited, n) # None
          /\ MapGet(xref, n) # None
          /\ MapGet(xref, n) # NewestEntry(file, visited, n)

\* When the empty password cannot unlock: verification fails, V >= 5, the
\* filter is not Standard, /O or /U is missing, /ID[0] is missing.
NotUnlockable(e) ==
    \/ ~e.uMatches
    \/ e.v >= 5
    \/ ~e.filterStd
    \/ ~e.hasO
    \/ ~e.hasU
    \/ ~e.idOk

EffectiveRootAndEncrypt ==
    /\ trailer # None
    /\ trailer[1].root # 0
    /\ file.secs[trailer[1].dict].encrypt

\* C7: with /Root and /Encrypt in the effective trailer and an empty
\* password that cannot unlock the file, the load never gets past parse():
\* it ends with the unsupported error, not a parse error or any other, and
\* without a document or encryption info.
C7_LockedFileIsUnsupported ==
    pc \in {"pages", "done"} /\ EffectiveRootAndEncrypt /\ NotUnlockable(file.enc) =>
        /\ pc = "done"
        /\ parseResult = "unsupported"
        /\ loadResult = "unsupported"
        /\ encryptionInfo = None

\* The same, for the files whose /Encrypt reference resolves without
\* exhausting the stack.
LockedFileIsUnsupportedWhenResolved ==
    file.enc.dictKind # "cycle" => C7_LockedFileIsUnsupported

\* C8: past the /Root check there is always an effective trailer with a
\* /Root; a load that reached the check without one (after the normal path
\* or after the recovery scan), or whose scan found no trailer at all, has
\* ended in a parse error and returned no document.
C8_NoRootIsParseError ==
    pc \in {"encrypt", "pages", "done"} /\ (trailer = None \/ trailer[1].root = 0) =>
        /\ pc = "done"
        /\ parseResult = "parse_error"
        /\ loadResult = "parse_error"

\* C8 witness: the normal path failed, the recovery scan found a trailer
\* without /Root, and the load ended in a parse error.
C8_Witness ==
    /\ pc = "done"
    /\ normalFailed
    /\ trailer # None
    /\ trailer[1].root = 0
    /\ loadResult = "parse_error"

\* The /Root of the first trailer, newest to oldest, that has one.
RECURSIVE FirstRoot(_, _, _)
FirstRoot(f, seen, k) ==
    IF k > Len(seen) THEN 0
    ELSE IF f.secs[seen[k]].root # 0 THEN f.secs[seen[k]].root
    ELSE FirstRoot(f, seen, k + 1)

\* C9: when the normal path has walked the /Prev chain and some trailer on
\* it has a /Root, parse() does not fail for a missing /Root (it succeeds
\* unless the file is encrypted and locked), and the effective root is the
\* /Root of the first trailer, newest to oldest, that has one.
C9_RootFromPrevTrailer ==
    pc \in {"encrypt", "pages", "done"} /\ ~normalFailed
      /\ FirstRoot(file, visited, 1) # 0 =>
        /\ trailer # None
        /\ trailer[1].root = FirstRoot(file, visited, 1)
        /\ trailer[1].dict = visited[1]
        /\ parseResult # "parse_error"
        /\ pc \in {"pages", "done"} /\ ~file.secs[visited[1]].encrypt => parseResult = "ok"

\* C9 witness: the newest trailer has no /Root, the one its /Prev leads to
\* has; parse() succeeded with that root and the document loaded.
C9_Witness ==
    /\ ~normalFailed
    /\ Len(visited) >= 2
    /\ file.secs[visited[1]].root = 0
    /\ file.secs[visited[2]].root # 0
    /\ parseResult = "ok"
    /\ trailer[1].root = file.secs[visited[2]].root
    /\ loadResult = "document"

\* C10: while the crypto primitives are unregistered neither md5 nor the
\* AES-CBC decryption is ever invoked, and a load that meets /Encrypt in its
\* effective trailer ends with the unsupported error and no document.
C10_NoCryptoNoDecryption ==
    ~cryptoSet =>
        /\ md5Calls = 0
        /\ aesCalls = 0
        /\ encryptionInfo = None
        /\ pc \in {"pages", "done"} /\ EffectiveRootAndEncrypt =>
              /\ pc = "done"
              /\ parseResult = "unsupported"
              /\ loadResult = "unsupported"

\* The same, for the files whose /Encrypt reference resolves without
\* exhausting the stack.
NoCryptoNoDecryptionWhenResolved ==
    file.enc.dictKind # "cycle" => C10_NoCryptoNoDecryption

\* A file whose objects, sections, trailers and /Prev chain are intact, every
\* trailer naming the one catalog, object 1.
Intact(f) ==
    /\ Len(f.secs) >= 1
    /\ \A i \in 1 .. Len(f.secs) :
          /\ f.secs[i].root = 1
          /\ f.secs[i].prev = IF i = 1 THEN "none" ELSE "older"

\* C6: an intact file whose startxref points at garbage loads through the
\* recovery scan and reads, for the catalog and for every object number,
\* the same bytes as the same file read through a valid startxref and its
\* xref sections, so the same pages and text, also when the file holds
\* several generations of an object.
C6_RecoveryReadsSameObjects ==
    pc \in {"pages", "done"} /\ file.start = "garbage" /\ Intact(file) =>
        LET valid == parseXRefAt(file, OffsetOfSection(file, Len(file.secs)),
                                 EmptyMap, None)
        IN  /\ normalFailed
            /\ parseResult \in {"ok", "unsupported"}
            /\ trailer[1].root = valid.trailer[1].root
            /\ \A n \in ObjNums : ObjectRead(xref, n) = ObjectRead(valid.xref, n)

\* ---- SpecResolve ----

\* C2: no call of resolve() ends in the exhaustion of the call stack, and
\* the nesting counted by resolve() never passes MAX_RESOLVE_DEPTH, whatever
\* the xref map and the objects, reference cycles included.
C2_ResolveTerminatesWithinCap ==
    /\ outcome # "RangeError"
    /\ resolveDepth <= MAX_RESOLVE_DEPTH

\* ---- SpecContent ----

\* C11: Form-XObject recursion depth is capped at 10: no content stream is
\* interpreted at a Form nesting depth greater than 10, and interpreting a
\* page whose Form XObject invokes itself, directly or through other forms,
\* terminates: extractTextItems returns.
C11_FormDepthCapped ==
    /\ [](\A i \in 1 .. Len(frames) : frames[i].depth <= FormDepthCap)
    /\ <>(cpc = "done")

\* a page whose form invokes itself has been interpreted to the end, the
\* depth check having turned nested calls away
C11_Witness ==
    /\ cpc = "done"
    /\ capHits > 0
    /\ \E i \in 1 .. Len(pageItems) : pageItems[i].y >= FormDepthCap

\* The step-by-step interpreter and the function agree on the items.
StepsAgreeWithFunction ==
    cpc = "done" =>
        pageItems = extractTextItems(contentStreams, xobjects, << >>, includeInvisibleText)

\* ---- SpecLoad ----

\* C12: parsing the same bytes twice with the same options and the same
\* injected primitives yields byte-identical text for every page, whatever
\* order the pages are read in within each load.
C12_LoadsAgree ==
    \A p \in DOMAIN loadText[1] :
        (loadText[1][p] # None /\ loadText[2][p] # None) => loadText[1][p] = loadText[2][p]

\* With the pages read in the same order the two loads do agree.
SameOrderLoadsAgree ==
    (Len(readOrder[2]) <= Len(readOrder[1])
     /\ readOrder[2] = SubSeq(readOrder[1], 1, Len(readOrder[2])))
    => C12_LoadsAgree

\* ---- SpecPage, continued ----

Unset(pg) == pg.textItems = None /\ pg.text = None /\ pg.error = None

\* C13: extraction is lazy and per page: loading a document extracts no
\* page content, and the first access to text or textItems of one page runs
\* content extraction for that page only, leaving the cached items, cached
\* text and recorded error of every other page as they were (unset, when no
\* other page has been read).
C13_ExtractionLazyPerPage ==
    /\ (extracted = {} /\ \A q \in PageNums : Unset(pages[q]))
    /\ [][\A p \in PageNums :
            (ReadText(p) \/ ReadTextItems(p)) =>
                /\ extracted' \subseteq extracted \cup {p}
                /\ (pages[p].textItems = None /\ pages[p].pageDict /\ pages[p].parser)
                       => p \in extracted'
                /\ \A q \in PageNums \ {p} : pages'[q] = pages[q]]_vars

\* one page has been read and extracted, the other is untouched
C13_Witness ==
    \E p, q \in PageNums :
        /\ extracted = {p}
        /\ pages[p].text # None
        /\ q # p
        /\ pages[q] = NewPage

\* The texts in ts that are not empty, each after the first preceded by sep.
RECURSIVE JoinedNonEmpty(_, _, _)
JoinedNonEmpty(ts, sep, first) ==
    IF ts = << >> THEN << >>
    ELSE IF Head(ts) = << >> THEN JoinedNonEmpty(Tail(ts), sep, first)
    ELSE (IF first THEN << >> ELSE sep) \o Head(ts) \o JoinedNonEmpty(Tail(ts), sep, FALSE)

\* C14: the document-level text equals the texts of the pages whose text is
\* non-empty, in page order, joined by the page separator; a page with empty
\* text contributes neither text nor a separator.
C14_DocTextJoinsNonEmptyPages ==
    [][(docText = None /\ docText' # None) =>
          /\ \A p \in PageNums : pages'[p].text # None
          /\ docText'[1] = JoinedNonEmpty([p \in PageNums |-> pages'[p].text[1]],
                                          pageSeparator, TRUE)]_vars

\* the document text of two pages, one of them empty, is the other's text,
\* or of two non-empty ones their texts around one separator
C14_Witness ==
    /\ docText # None
    /\ NumPages = 2
    /\ pages[1].text # None /\ pages[2].text # None
    /\ \/ (pages[1].text[1] = << >> /\ pages[2].text[1] # << >> /\ docText[1] = pages[2].text[1])
       \/ (pages[1].text[1] # << >> /\ pages[2].text[1] # << >>
           /\ docText[1] = pages[1].text[1] \o pageSeparator \o pages[2].text[1])

\* ---- SpecContent, continued ----

\* The streams of a /Contents array written one after the other.
RECURSIVE ConcatStreams(_)
ConcatStreams(ss) == IF ss = << >> THEN << >> ELSE Head(ss) \o ConcatStreams(Tail(ss))

\* C15: when a page's /Contents is an array of streams, the emitted runs are
\* the same as those from interpreting the concatenation of the streams as
\* one stream (font and size, matrices, q/Q stack and text-object id counter
\* carry over from one stream to the next).
C15_ContentsArrayIsConcatenation ==
    cpc = "done" =>
        pageItems = extractTextItems(<< ConcatStreams(contentStreams) >>, xobjects, << >>,
                                     includeInvisibleText)

\* A stream with every ' and " spelled out by the operators that define
\* them:  s '  is  T* s Tj,  and  aw ac s "  is  aw Tw ac Tc s '.
RECURSIVE SpelledOut(_)
SpelledOut(data) ==
    IF data = << >> THEN << >>
    ELSE IF /\ Len(data) >= 4
            /\ data[1].type = "number" /\ data[2].type = "number"
            /\ data[3].type = "string" /\ data[4] = Word("\"")
    THEN << data[1], Word("Tw"), data[2], Word("Tc"), Word("T*"), data[3], Word("Tj") >>
         \o SpelledOut(SubSeq(data, 5, Len(data)))
    ELSE IF Len(data) >= 2 /\ data[1].type = "string" /\ data[2] = Word("'")
    THEN << Word("T*"), data[1], Word("Tj") >> \o SpelledOut(SubSeq(data, 3, Len(data)))
    ELSE << Head(data) >> \o SpelledOut(Tail(data))

\* C16: the operator ' applied to a string s first moves to the next line
\* exactly as T* does and then emits the run s, and the operator " applied
\* to aw ac s first sets word spacing to aw and character spacing to ac and
\* then behaves as ' s.
C16_QuoteOperatorsAsDefined ==
    cpc = "done" =>
        pageItems = extractTextItems([i \in 1 .. Len(contentStreams) |->
                                         SpelledOut(contentStreams[i])],
                                     xobjects, << >>, includeInvisibleText)

\* C17: two runs emitted for the same page carry the same text-object id
\* only if they were emitted inside the same BT...ET text object, whether
\* the text objects lie in one stream, in different streams of a /Contents
\* array, or inside Form XObjects.
C17_TextObjectIdsDistinguishTextObjects ==
    \A i, j \in 1 .. Len(pageItems) :
        pageItems[i].textObjectId = pageItems[j].textObjectId => origin[i] = origin[j]

\* Within one activation of the interpreter the ids do tell the text
\* objects apart.
TextObjectIdsDistinguishWithinOneStream ==
    (Len(contentStreams) <= 1 /\ xobjects = NoForms)
        => C17_TextObjectIdsDistinguishTextObjects

\* ---- SpecSort ----

\* C18: in the output of the sort, within each clustered line the items
\* that share a text-object id are contiguous and appear in their original
\* stream order, and the groups are ordered by each group's leftmost x on
\* that line.
C18_LinesGroupedByTextObject ==
    \A n \in 1 .. Len(sortedLines) :
        LET line == sortedLines[n]
            id(k) == line[k].item.textObjectId
        IN  \A a, b \in 1 .. Len(line) :
                a < b =>
                    /\ id(a) = id(b) =>
                          /\ line[a].i < line[b].i
                          /\ \A c \in a .. b : id(c) = id(a)
                    /\ id(a) # id(b) => objMinX(line, id(a)) <= objMinX(line, id(b))

\* Text objects whose leftmost x on the line differ are kept apart and in
\* order.
GroupedWhenLeftmostXDiffer ==
    (\A n \in 1 .. Len(sortedLines) :
        \A a, b \in 1 .. Len(sortedLines[n]) :
            LET line == sortedLines[n]
            IN  line[a].item.textObjectId # line[b].item.textObjectId
                   => objMinX(line, line[a].item.textObjectId)
                        # objMinX(line, line[b].item.textObjectId))
    => C18_LinesGroupedByTextObject



\* ---- SpecParse: /Prev cycles ----

\* The /Prev chain of the file, followed from the newest section, comes back
\* to a section it has been through.
HasPrevCycle(f) ==
    /\ f.start = "newest"
    /\ \E i \in 1 .. Len(f.secs) : f.secs[i].prev \in CyclicPrevKinds

\* How many times parseXRefAt has read and merged section i.
TimesProcessed(i) == Cardinality({ k \in 1 .. Len(visited) : visited[k] = i })

\* C19: on a file whose /Prev chain contains a cycle, parse() terminates:
\* every section is processed a bounded number of times (here: no more often
\* than the engine's stack has room for calls) and parse() ends with a
\* document structure, a parse error or an unsupported error.
C19_PrevCycleParseEnds ==
    HasPrevCycle(file) =>
        /\ \A i \in 1 .. Len(file.secs) : TimesProcessed(i) <= StackLimit
        /\ pc = "done" => parseResult \in {"ok", "parse_error", "unsupported"}

\* The same statement for the files whose /Encrypt does not lead to the
\* stream that names itself as its /Length: the walk along /Prev is ended
\* by the exhaustion of the stack, the catch block of parse() takes the
\* RangeError, and the recovery scan decides the result.
PrevCycleEndsWhenEncryptResolves ==
    HasPrevCycle(file) /\ file.enc.dictKind # "cycle" =>
        /\ \A i \in 1 .. Len(file.secs) : TimesProcessed(i) <= StackLimit
        /\ Len(visited) = StackLimit => pc # "xref" \/ ENABLED ParseXRefAt
        /\ pc \in {"root", "encrypt", "pages", "done"} => normalFailed
        /\ pc = "done" => parseResult \in {"ok", "parse_error", "unsupported"}

\* A cyclic file on which the walk was cut by the stack and parse() ended.
PrevCycleCutByStack ==
    /\ HasPrevCycle(file)
    /\ pc = "done"
    /\ Len(visited) = StackLimit
    /\ parseResult = "ok"


\* ---- SpecTree ----

\* The nodes collectPages is called on from node n within k nested calls.
RECURSIVE Below(_, _, _)
Below(t, n, k) ==
    IF k = 0 \/ ~hasKids(t[n]) THEN {}
    ELSE LET ks == { t[n].kids[1][j] : j \in 1 .. Len(t[n].kids[1]) }
         IN  ks \cup UNION { Below(t, m, k - 1) : m \in ks }

\* A node under the root has itself, or one of its ancestors, among its kids.
KidsCycle(t) ==
    \E n \in {1} \cup Below(t, 1, MaxTreeNodes) : n \in Below(t, n, MaxTreeNodes)

\* C20: collecting the pages terminates for every page tree, also when the
\* /Kids of a node refer to the node itself or to one of its ancestors:
\* getPages ends by handing back the (finite) array of pages, never by
\* exhausting the call stack.
C20_CollectPagesTerminates ==
    tpc = "done" => walkResult = "pages" /\ Len(pageDicts) <= StackLimit * MaxKids

\* On a tree without such a node getPages hands back the array, which holds
\* no more pages than the tree has paths from the root to a leaf.
AcyclicTreesAreCollected ==
    ~KidsCycle(tree) =>
        /\ Len(walk) <= MaxTreeNodes
        /\ Len(pageDicts) <= MaxKids * MaxKids
        /\ tpc = "done" => walkResult = "pages"

\* On a tree with such a node getPages never hands anything back.
KidsCycleExhaustsStack ==
    KidsCycle(tree) /\ tpc = "done" => walkResult = "RangeError"


\* ---- SpecEnc ----

\* C21: in an encrypted document no object taken out of an object stream is
\* decrypted on its own, and whenever an object is parsed out of the object
\* stream the payload of that stream has been decrypted exactly once, also
\* when the stream was first resolved during parse(), before the key was
\* derived.
C21_ObjStmPayloadDecryptedOnce ==
    /\ \A n \in EncObjs : encFile.kind[n] = "compressed" => decryptCalls[n] = 0
    /\ decryptCalls[ObjStm] <= 1
    /\ \A k \in 1 .. Len(parsedOut) : parsedOut[k].payloadDecrypts = 1

\* The first half holds as it stands.
CompressedNeverDecryptedAlone ==
    /\ \A n \in EncObjs : encFile.kind[n] = "compressed" => decryptCalls[n] = 0
    /\ decryptCalls[ObjStm] <= 1

\* The second half holds for an object stream first resolved with the key
\* in place; one first resolved during parse() is cached as stored and its
\* payload is never decrypted.
PayloadDecryptedWhenKeyCameFirst ==
    /\ (encCache[ObjStm] = Some("decrypted")) =>
            \A k \in 1 .. Len(parsedOut) : parsedOut[k].payloadDecrypts = 1
    /\ (encCache[ObjStm] = Some("stored")) =>
            /\ Len(parsedOut) >= 1
            /\ \A k \in 1 .. Len(parsedOut) : parsedOut[k].payloadDecrypts = 0


\* ---- SpecLoad, continued ----

\* C22: cache entries are immutable once stored: an entry of the object
\* cache, once set, is never replaced by a different object, and a
\* resolution of a key that has an entry returns that entry.
C22_CacheEntriesImmutable ==
    [][\A l \in 1 .. 2 : \A n \in LoadObjIds :
          loadCache[l][n] # None => loadCache'[l][n] = loadCache[l][n]]_vars

\* The entries of the objects that are not stored in the object stream,
\* and the entry of the object stream itself, are never replaced.
UncompressedEntriesImmutable ==
    [][\A l \in 1 .. 2 : \A n \in LoadObjIds :
          /\ loadCache[l][n] # None
          /\ (n = Container \/ loadFile.objs[n].kind # "compressed")
          => loadCache'[l][n] = loadCache[l][n]]_vars


\* ---- SpecStm ----

\* The bytes from the end of the line ending after the stream keyword up to
\* the next endstream marker.
UpToMarker(data) ==
    slice(data, skipLineEnding(data), findNext(data, ENDSTREAM_MARKER, skipLineEnding(data)))

HasMarker(data) == findNext(data, ENDSTREAM_MARKER, skipLineEnding(data)) # -1

\* C23: when /Length is absent or does not resolve to a number, the payload
\* of the stream is the bytes from the end of the line ending after the
\* stream keyword up to the next endstream marker, with at most one
\* trailing CR or LF byte removed.
C23_PayloadUpToEndstream ==
    stmDone /\ stmLength < 0 /\ HasMarker(stmBytes) =>
        /\ stmData # None
        /\ LET full == UpToMarker(stmBytes)
               got == stmData[1]
           IN  \/ got = full
               \/ /\ Len(got) = Len(full) - 1
                  /\ got = SubSeq(full, 1, Len(full) - 1)
                  /\ full[Len(full)] \in {CR, LF}

\* What the code does: every trailing CR and LF byte goes.
PayloadLosesAllTrailingLineEnds ==
    stmDone /\ stmLength < 0 /\ HasMarker(stmBytes) =>
        /\ stmData # None
        /\ LET full == UpToMarker(stmBytes)
               got == stmData[1]
           IN  /\ Len(got) <= Len(full)
               /\ got = SubSeq(full, 1, Len(got))
               /\ \A k \in (Len(got) + 1) .. Len(full) : full[k] \in {CR, LF}
               /\ Len(got) > 0 => got[Len(got)] \notin {CR, LF}


\* ------------------------------------------------------------------------
\* The graphics-state stack (SpecText)
\* ------------------------------------------------------------------------

\* The variables of the state that q is said to snapshot.
StateVariables(st) ==
    << st.currentFont, st.fontSize, st.charSpacing, st.wordSpacing,
       st.horizontalScaling, st.textLeading, st.textRise, st.textRenderMode,
       st.tm, st.tlm, st.ctm >>

\* The frame of the page's stream once its first k lexemes are consumed.
RECURSIVE FrameAfter(_, _)
FrameAfter(fr, k) ==
    IF fr.pos > k \/ nextToken(fr.data, fr.pos).tok.type = "EOF" THEN fr
    ELSE FrameAfter(stepToken(fr, << >>).fr, k)

StateAfter(data, k) ==
    FrameAfter(NewFrame(data, 0, Identity, includeInvisibleText), k).st

\* The place of the q that the Q at place k pops, 0 when the stack is
\* empty there: the nearest q before k with balanced q .. Q in between.
RECURSIVE MatchingQ(_, _, _)
MatchingQ(data, i, open) ==
    IF i = 0 THEN 0
    ELSE IF data[i] = Word("Q") THEN MatchingQ(data, i - 1, open + 1)
    ELSE IF data[i] = Word("q")
         THEN IF open = 0 THEN i ELSE MatchingQ(data, i - 1, open - 1)
    ELSE MatchingQ(data, i - 1, open)

\* The page's stream has just executed a Q.
JustRestored ==
    /\ frames # << >>
    /\ frames[1].pos > 1
    /\ frames[1].data[frames[1].pos - 1] = Word("Q")

\* C24: after a Q that matches an earlier q, the font, the font size, Tc, Tw,
\* Tz, TL, Ts, Tr, TM, TLM and CTM have the values they had when that q was
\* executed, whatever ran in between; a Q on an empty stack changes nothing.
C24_RestoreReturnsToSave ==
    JustRestored =>
        LET fr == frames[1]
            k == fr.pos - 1
            j == MatchingQ(fr.data, k - 1, 0)
        IN  IF j = 0
            THEN StateVariables(fr.st) = StateVariables(StateAfter(fr.data, k - 1))
            ELSE StateVariables(fr.st) = StateVariables(StateAfter(fr.data, j - 1))

\* A Q has undone a change of every variable but the matrices' zero
\* entries: the state before it differs from the state it restored in the
\* font, the spacings, the scaling, the leading, the rise and the mode.
C24_Witness ==
    /\ JustRestored
    /\ LET fr == frames[1]
           k == fr.pos - 1
           j == MatchingQ(fr.data, k - 1, 0)
           before == StateVariables(StateAfter(fr.data, k - 1))
           now == StateVariables(fr.st)
       IN  /\ j > 0
           /\ \A f \in 1 .. 11 : before[f] # now[f]

\* A Q with nothing on the stack was executed after the state was changed.
EmptyStackRestoreReached ==
    /\ JustRestored
    /\ MatchingQ(frames[1].data, frames[1].pos - 2, 0) = 0
    /\ frames[1].st.textRenderMode = 3


\* ------------------------------------------------------------------------
\* Invisible text (SpecText)
\* ------------------------------------------------------------------------

RECURSIVE IsSubsequence(_, _)
IsSubsequence(a, b) ==
    IF a = << >> THEN TRUE
    ELSE IF b = << >> THEN FALSE
    ELSE IF Head(a) = Head(b) THEN IsSubsequence(Tail(a), Tail(b))
    ELSE IsSubsequence(a, Tail(b))

\* The text and the device position of every run.
Placed(its) == [i \in 1 .. Len(its) |-> << its[i].text, its[i].x, its[i].y >>]

\* The page's stream has just executed a Tj.
JustShown ==
    /\ frames # << >>
    /\ frames[1].pos > 1
    /\ frames[1].data[frames[1].pos - 1] = Word("Tj")

\* The state the last operator of the page's stream was executed in.
StateBeforeLast == StateAfter(frames[1].data, frames[1].pos - 2)

\* ... a Tj of a non-empty string, with a font, in render mode 3.
JustShownInvisibly ==
    /\ JustShown
    /\ StateBeforeLast.textRenderMode = 3
    /\ StateBeforeLast.currentFont # None
    /\ getStr(StateBeforeLast.operands, 0) # None
    /\ getStr(StateBeforeLast.operands, 0) # Some(<< >>)

\* (totalWidth * fontSize + charCount * Tc + spaceCount * Tw) * (Tz / 100)
SpecifiedAdvance(bytes, st) ==
    LET m == computeTextMetrics(bytes, st.currentFont[1])
    IN  ((m.totalWidth * st.fontSize + m.charCount * st.charSpacing
          + m.spaceCount * st.wordSpacing) * st.horizontalScaling) \div 100

\* C25: the runs of visible text, with their text and device positions, are
\* the same whether includeInvisibleText is on or off: the runs extracted
\* with the option off (all of them visible) are, in order, among those
\* extracted with it on; and a Tj executed in render mode 3 advances the
\* text matrix by (totalWidth*fontSize + charCount*Tc + spaceCount*Tw)*Tz/100
\* in both settings.
C25_InvisibleRunsAdvanceAlike ==
    /\ cpc = "done" =>
          IsSubsequence(Placed(extractTextItems(contentStreams, xobjects, << >>, FALSE)),
                        Placed(extractTextItems(contentStreams, xobjects, << >>, TRUE)))
    /\ JustShownInvisibly =>
          frames[1].st.tm[5] =
              StateBeforeLast.tm[5]
              + SpecifiedAdvance(getStr(StateBeforeLast.operands, 0)[1], StateBeforeLast)

\* What the code does hold to: with the option on, a Tj in mode 3 advances
\* as specified; with it off, it leaves the text matrix where it was.
InvisibleShowAdvancesOnlyWhenIncluded ==
    JustShownInvisibly =>
        frames[1].st.tm[5] =
            StateBeforeLast.tm[5]
            + IF includeInvisibleText
              THEN SpecifiedAdvance(getStr(StateBeforeLast.operands, 0)[1], StateBeforeLast)
              ELSE 0

\* A show operator is about to be executed in render mode 3.
ShowOperators == {"Tj", "TJ", "'", "\""}

InvisibleShowNext ==
    /\ frames # << >>
    /\ TopToken.tok.type = "Keyword"
    /\ TopToken.tok.str \in ShowOperators
    /\ TopFrame.st.textRenderMode = 3

\* C26: with includeInvisibleText off, a show operator (Tj, TJ, ', ")
\* executed in render mode 3 emits no item; with the option on, it emits
\* what the same operator emits in the same state in render mode 0.
C26_InvisibleRunsDroppedUnlessIncluded ==
    [][InvisibleShowNext =>
          IF includeInvisibleText
          THEN pageItems' = execOp(TopToken.tok.str,
                                   [TopFrame.st EXCEPT !.textRenderMode = 0],
                                   pageItems).items
          ELSE pageItems' = pageItems]_vars

\* With the option off, a Tj of a non-empty string in mode 3 has been
\* executed and the page has no item.
C26_Witness ==
    /\ ~includeInvisibleText
    /\ JustShownInvisibly
    /\ pageItems = << >>

\* With the option on, the run of a Tj in mode 3 is the page's last item.
InvisibleRunEmitted ==
    /\ includeInvisibleText
    /\ JustShownInvisibly
    /\ pageItems # << >>
    /\ pageItems[Len(pageItems)].text = getStr(StateBeforeLast.operands, 0)[1]


\* ------------------------------------------------------------------------
\* Cross-reference stream fields (SpecXs)
\* ------------------------------------------------------------------------

\* The bytes of field i (1 .. 3) of the record.
FieldBytes(i) ==
    LET from == IF i = 1 THEN 0 ELSE IF i = 2 THEN xsW[1] ELSE xsW[1] + xsW[2]
    IN  SubSeq(xsData, from + 1, from + xsW[i])

RECURSIVE StripZeros(_)
StripZeros(b) == IF b # << >> /\ Head(b) = 0 THEN StripZeros(Tail(b)) ELSE b

\* The big-endian digits, base 256, of a non-negative integer.
RECURSIVE Digits(_)
Digits(n) == IF n = 0 THEN << >> ELSE Append(Digits(n \div 256), n % 256)

\* The value is the non-negative big-endian integer of the bytes.
IsBigEndianOf(v, b) == v >= 0 /\ Digits(v) = StripZeros(b)

\* C27: every field of an xref-stream record is decoded as the non-negative
\* big-endian integer formed by its w bytes, for every width in /W, a
\* 4-byte field with the high bit set and wider fields included.
C27_FieldsAreBigEndian ==
    xspc # "record" /\ xspc # "idle" =>
        \A i \in 1 .. 3 : IsBigEndianOf(xsFields[i], FieldBytes(i))

\* What the code does hold to: a field is decoded right when the integer
\* of its bytes is below 2^31.
FitsInt32(b) ==
    LET s == StripZeros(b)
    IN  Len(s) < 4 \/ (Len(s) = 4 /\ s[1] < 128)

SmallFieldsAreBigEndian ==
    xspc # "record" /\ xspc # "idle" =>
        \A i \in 1 .. 3 : FitsInt32(FieldBytes(i)) => IsBigEndianOf(xsFields[i], FieldBytes(i))

\* A 4-byte offset 80 00 00 01 has been decoded as a negative number.
HighBitFieldIsNegative ==
    /\ xspc = "done"
    /\ xsW = << 1, 4, 1 >>
    /\ FieldBytes(2) = << 128, 0, 0, 1 >>
    /\ xsFields[2] < 0

\* A 5-byte offset 01 00 00 00 01 has been decoded as 1.
WideFieldLosesTopByte ==
    /\ xspc = "done"
    /\ FieldBytes(2) = << 1, 0, 0, 0, 1 >>
    /\ xsFields[2] = 1


\* ------------------------------------------------------------------------
\* The lexer (SpecLex)
\* ------------------------------------------------------------------------

\* A call of nextToken has returned.
Returned == lexpc = "ready" /\ lexTok # "none"

\* A returned token other than EOF left the cursor further forward; a call
\* at the end of the buffer returned EOF; no more tokens than bytes.
TokensMakeProgress ==
    /\ Returned /\ lexTok # "EOF" => lexPos > lexStart
    /\ Returned /\ lexStart >= Len(lexData) => lexTok = "EOF"
    /\ lexTokens <= Len(lexData)

\* C28: for every byte buffer and every cursor position nextToken returns
\* without throwing; a token other than EOF leaves the cursor strictly
\* further forward, at the end of the buffer every call returns EOF, and
\* reading until EOF takes at most as many tokens as the buffer has bytes.
C28_NextTokenNeverThrows ==
    /\ lexpc # "thrown"
    /\ TokensMakeProgress

\* A buffer has been read to EOF, and once more.
ReadToEof == Returned /\ lexEofs = 2 /\ lexTokens = Len(lexData) /\ lexTokens = MaxLexLen

\* The run of bytes that start no token has exhausted the call stack.
BinaryRunExhaustsStack == lexpc = "thrown" /\ lexData = BinaryRun /\ lexStart = 0


\* ------------------------------------------------------------------------
\* Markdown of a document (SpecMd)
\* ------------------------------------------------------------------------

\* Processing the page fails: in content extraction or in reading its
\* link annotations.
PageFails(pg) == pg.live /\ (pg.content = "fails" \/ pg.annots = "corrupt")

\* The Markdown of the pages that do not fail, in order.
RECURSIVE MarkdownOfOthers(_, _)
MarkdownOfOthers(doc, i) ==
    IF i > Len(doc) THEN << >>
    ELSE LET md == IF PageFails(doc[i]) THEN << >> ELSE pageToMarkdown(i, doc[i]).md
         IN  (IF md = << >> THEN << >> ELSE << md >>) \o MarkdownOfOthers(doc, i + 1)

\* C29: a failure while processing one page, in content extraction or in
\* reading its link annotations, does not abort the document: docToMarkdown
\* returns, and what it returns is the Markdown of the other pages.
C29_PageFailureDoesNotAbort ==
    /\ mdpc # "thrown"
    /\ mdpc = "done" => mdResult = Some(Join(MarkdownOfOthers(mdDoc, 1), mdSeparator))

\* What the code does hold to: docToMarkdown is left by a throw only at a
\* page whose annotations cannot be read, and a failure of content
\* extraction costs the page alone.
OnlyAnnotationFailuresAbort ==
    /\ mdpc = "thrown" => mdDoc[mdIdx + 1].live /\ mdDoc[mdIdx + 1].annots = "corrupt"
    /\ mdpc = "done" => mdResult = Some(Join(MarkdownOfOthers(mdDoc, 1), mdSeparator))

\* A document whose second page failed in content extraction was converted.
ContentFailureContained ==
    /\ mdpc = "done"
    /\ Len(mdDoc) = 3
    /\ mdDoc[2].live /\ mdDoc[2].content = "fails"
    /\ mdResult = Some(<< "one", "\n\n", "[three](uri)" >>)

\* The conversion was aborted at the second page, after the first was done.
AnnotationFailureAborts ==
    /\ mdpc = "thrown"
    /\ mdIdx = 1
    /\ mdParts = << << "one" >> >>


\* ------------------------------------------------------------------------
\* The walk up the /Parent chain (SpecRes, SpecResLive)
\* ------------------------------------------------------------------------

\* The dictionaries a walk can visit: one per cache key.
ResCacheKeys == MaxResObjs * 2

ResourcesInherited ==
    /\ respc = "done"
    /\ resDict # resPage
    /\ resResult = Some(<< "resources of", resDict[1] >>)

====
